---- MODULE Spec2Model ----
(***************************************************************************)
(* Migration safety engine of the BetterBase CLI                           *)
(* (packages/cli/src/commands/migrate.ts) as a state machine.              *)
(*                                                                         *)
(* One behaviour is a sequence of `bb migrate` invocations by one operator *)
(* against one project directory.  The durable state is the filesystem     *)
(* (live database file, backups/ directory, drizzle/ directory); the rest  *)
(* is the local state of the invocation in progress.                       *)
(***************************************************************************)
EXTENDS Integers, Sequences, FiniteSets, TLC

(***************************************************************************)
(* Bounds of the model.                                                    *)
(***************************************************************************)
MaxRuns == 2         \* invocations of the command in one behaviour
MaxTick == 1         \* most milliseconds that pass between two invocations
MaxStatements == 2   \* most statements in one list given to analyzeMigration

(***************************************************************************)
(* Text.  A text is a sequence of tokens separated by whitespace.  A token *)
(* is a record [t, v, core, glue]:                                         *)
(*   t = "w"  : a run of identifier characters [\w.-]+ with text v.  core  *)
(*              is the lower-case keyword it holds and glue tells whether  *)
(*              further word characters are attached in front of the       *)
(*              keyword ("pre": re+create), behind it ("post": merge+d,    *)
(*              connect+ing) or not at all ("none": the token is the       *)
(*              keyword, in any letter case);                              *)
(*   t = "dq" : "v" in double quotes;  t = "bt" : `v` in backticks;        *)
(*   t = "x"  : any other text (punctuation, parenthesised bodies, ;).     *)
(***************************************************************************)
Token(t, v, core, glue) == [t |-> t, v |-> v, core |-> core, glue |-> glue]

Word(v) == Token("w", v, v, "none")

UpWord(v, core) == Token("w", v, core, "none")

GluedWord(v, core, glue) == Token("w", v, core, glue)

DQuoted(v) == Token("dq", v, "", "none")

BQuoted(v) == Token("bt", v, "", "none")

Other(v) == Token("x", v, "", "none")

Semi == Other(";")

Words(ws) == [i \in 1..Len(ws) |-> Word(ws[i])]

RECURSIVE Concat(_)
Concat(ss) == IF ss = <<>> THEN <<>> ELSE Head(ss) \o Concat(Tail(ss))

Min(S) == CHOOSE x \in S : \A y \in S : x <= y

(***************************************************************************)
(* analyzeMigration: the regular expressions, on tokens.                   *)
(***************************************************************************)
NoColumn == "<undefined>"

\* Keyword j of the n keywords of a case-insensitive pattern.  The keywords are
\* separated by \s+; the pattern is not anchored, so word characters may precede
\* its first keyword, and may follow its last one when the pattern ends there.
IsKw(tok, k, first, lastOpen) ==
  /\ tok.t = "w"
  /\ tok.core = k
  /\ \/ tok.glue = "none"
     \/ tok.glue = "pre" /\ first
     \/ tok.glue = "post" /\ lastOpen

KwSeqAt(s, i, kws, open) ==
  /\ i >= 1
  /\ i + Len(kws) - 1 <= Len(s)
  /\ \A j \in 1..Len(kws) :
       IsKw(s[i + j - 1], kws[j], j = 1 /\ open[1], j = Len(kws) /\ open[2])

\* keywords at the start of a pattern, followed by \s+
KwAt(s, i, kws) == KwSeqAt(s, i, kws, <<TRUE, FALSE>>)

\* keywords inside a pattern, with \s+ on both sides
KwIn(s, i, kws) == KwSeqAt(s, i, kws, <<FALSE, FALSE>>)

\* ident = (?:"([^"]+)"|`([^`]+)`|([\w.-]+))
IsIdent(s, i) == i >= 1 /\ i <= Len(s) /\ s[i].t \in {"w", "dq", "bt"}

\* captureIdentifier: the one capture group of ident that took part
captureIdentifier(s, i) == s[i].v

\* (?:\s+kw...)?\s+ident starting after position i: the index of the token
\* the identifier matched, 0 when there is no match.  The optional group is
\* greedy and is given up when no identifier follows it.
IdentAfter(s, i, opt) ==
  IF KwIn(s, i + 1, opt) /\ IsIdent(s, i + 1 + Len(opt))
    THEN i + 1 + Len(opt)
    ELSE IF IsIdent(s, i + 1) THEN i + 1 ELSE 0

\* leftmost match of  kws (?:opt)? ident  : <<start, ident index>> or <<0, 0>>
MatchHead(s, kws, opt) ==
  LET starts == {i \in 1..Len(s) :
                   KwAt(s, i, kws) /\ IdentAfter(s, i + Len(kws) - 1, opt) # 0}
  IN IF starts = {} THEN <<0, 0>>
     ELSE LET i == Min(starts)
          IN <<i, IdentAfter(s, i + Len(kws) - 1, opt)>>

\* leftmost match of  alter table (?:if exists)? ident kws (?:opt)? ident :
\* <<table index, column index>> or <<0, 0>>
MatchAlter(s, kws, opt) ==
  LET Try(i) ==
        \* the optional (?:if exists) is given up when the rest fails with it
        LET tb == IdentAfter(s, i + 1, <<"if", "exists">>)
        IN IF tb # 0 /\ KwIn(s, tb + 1, kws) /\ IdentAfter(s, tb + Len(kws), opt) # 0
             THEN <<tb, IdentAfter(s, tb + Len(kws), opt)>>
             ELSE IF IsIdent(s, i + 2) /\ KwIn(s, i + 3, kws)
                       /\ IdentAfter(s, i + 2 + Len(kws), opt) # 0
                    THEN <<i + 2, IdentAfter(s, i + 2 + Len(kws), opt)>>
                    ELSE <<0, 0>>
      starts == {i \in 1..Len(s) :
                   KwAt(s, i, <<"alter", "table">>) /\ Try(i) # <<0, 0>>}
  IN IF starts = {} THEN <<0, 0>> ELSE Try(Min(starts))

\* an unanchored pattern made of keywords only
HasPhrase(s, kws) == \E i \in 1..Len(s) : KwSeqAt(s, i, kws, <<TRUE, TRUE>>)

\* the test without its first alternative: dropping NOT NULL taken as harmless
ModifyIsDestructiveLoosening(s) ==
  \/ HasPhrase(s, <<"set", "not", "null">>)
  \/ HasPhrase(s, <<"set", "data", "type">>)
  \/ HasPhrase(s, <<"rename", "column">>)

\* the test without its last alternative
ModifyIsDestructiveNoRename(s) ==
  \/ HasPhrase(s, <<"drop", "not", "null">>)
  \/ HasPhrase(s, <<"set", "not", "null">>)
  \/ HasPhrase(s, <<"set", "data", "type">>)

\* /drop\s+not\s+null|set\s+not\s+null|set\s+data\s+type|rename\s+column/i
ModifyIsDestructive(s) ==
  \/ HasPhrase(s, <<"drop", "not", "null">>)
  \/ HasPhrase(s, <<"set", "not", "null">>)
  \/ HasPhrase(s, <<"set", "data", "type">>)
  \/ HasPhrase(s, <<"rename", "column">>)

\* a record whose destructive flag is never set
ChangeNeverDestructive(type, table, column, isDestructive, detail) ==
  [type |-> type, table |-> table, column |-> column,
   isDestructive |-> FALSE, detail |-> detail]

\* a record: MigrationChange
Change(type, table, column, isDestructive, detail) ==
  [type |-> type, table |-> table, column |-> column,
   isDestructive |-> isDestructive, detail |-> detail]

\* the loop body with the drop-table test placed before the create-table test
analyzeStatementDropFirst(sql) ==
  LET createTable == MatchHead(sql, <<"create", "table">>, <<"if", "not", "exists">>)
      dropTable == MatchHead(sql, <<"drop", "table">>, <<"if", "exists">>)
      addColumn == MatchAlter(sql, <<"add", "column">>, <<"if", "not", "exists">>)
      dropColumn == MatchAlter(sql, <<"drop", "column">>, <<"if", "exists">>)
      alterCol == MatchAlter(sql, <<"alter", "column">>, <<>>)
      renameCol == MatchAlter(sql, <<"rename", "column">>, <<>>)
      \* alternation (?:alter column ident|rename column ident): leftmost
      \* start wins, and both alternatives start at the same alter table
      alterColumn == IF alterCol # <<0, 0>> /\ renameCol # <<0, 0>>
                       THEN IF alterCol[1] <= renameCol[1] THEN alterCol ELSE renameCol
                       ELSE IF alterCol # <<0, 0>> THEN alterCol ELSE renameCol
  IN IF sql = <<>> THEN <<>>
     ELSE IF dropTable # <<0, 0>>
       THEN <<Change("drop_table", captureIdentifier(sql, dropTable[2]),
                     NoColumn, TRUE, sql)>>
     ELSE IF createTable # <<0, 0>>
       THEN <<Change("create_table", captureIdentifier(sql, createTable[2]),
                     NoColumn, FALSE, sql)>>
     ELSE IF addColumn # <<0, 0>>
       THEN <<Change("add_column", captureIdentifier(sql, addColumn[1]),
                     captureIdentifier(sql, addColumn[2]), FALSE, sql)>>
     ELSE IF dropColumn # <<0, 0>>
       THEN <<Change("drop_column", captureIdentifier(sql, dropColumn[1]),
                     captureIdentifier(sql, dropColumn[2]), TRUE, sql)>>
     ELSE IF alterColumn # <<0, 0>>
       THEN <<Change("modify_column", captureIdentifier(sql, alterColumn[1]),
                     captureIdentifier(sql, alterColumn[2]),
                     ModifyIsDestructive(sql), sql)>>
     ELSE <<>>

\* the body of the loop of analyzeMigration: the records one statement adds
analyzeStatement(sql) ==
  LET createTable == MatchHead(sql, <<"create", "table">>, <<"if", "not", "exists">>)
      dropTable == MatchHead(sql, <<"drop", "table">>, <<"if", "exists">>)
      addColumn == MatchAlter(sql, <<"add", "column">>, <<"if", "not", "exists">>)
      dropColumn == MatchAlter(sql, <<"drop", "column">>, <<"if", "exists">>)
      alterCol == MatchAlter(sql, <<"alter", "column">>, <<>>)
      renameCol == MatchAlter(sql, <<"rename", "column">>, <<>>)
      \* alternation (?:alter column ident|rename column ident): leftmost
      \* start wins, and both alternatives start at the same alter table
      alterColumn == IF alterCol # <<0, 0>> /\ renameCol # <<0, 0>>
                       THEN IF alterCol[1] <= renameCol[1] THEN alterCol ELSE renameCol
                       ELSE IF alterCol # <<0, 0>> THEN alterCol ELSE renameCol
  IN IF sql = <<>> THEN <<>>
     ELSE IF createTable # <<0, 0>>
       THEN <<Change("create_table", captureIdentifier(sql, createTable[2]),
                     NoColumn, FALSE, sql)>>
     ELSE IF dropTable # <<0, 0>>
       THEN <<Change("drop_table", captureIdentifier(sql, dropTable[2]),
                     NoColumn, TRUE, sql)>>
     ELSE IF addColumn # <<0, 0>>
       THEN <<Change("add_column", captureIdentifier(sql, addColumn[1]),
                     captureIdentifier(sql, addColumn[2]), FALSE, sql)>>
     ELSE IF dropColumn # <<0, 0>>
       THEN <<Change("drop_column", captureIdentifier(sql, dropColumn[1]),
                     captureIdentifier(sql, dropColumn[2]), TRUE, sql)>>
     ELSE IF alterColumn # <<0, 0>>
       THEN <<Change("modify_column", captureIdentifier(sql, alterColumn[1]),
                     captureIdentifier(sql, alterColumn[2]),
                     ModifyIsDestructive(sql), sql)>>
     ELSE <<>>

analyzeMigration(sqlStatements) ==
  Concat([i \in 1..Len(sqlStatements) |-> analyzeStatement(sqlStatements[i])])

\* splitStatements: split at every ; and drop the empty pieces
RECURSIVE splitStatements(_)
splitStatements(sql) ==
  IF sql = <<>> THEN <<>>
  ELSE LET semis == {i \in 1..Len(sql) : sql[i] = Semi}
           cut == IF semis = {} THEN Len(sql) + 1 ELSE Min(semis)
           first == SubSeq(sql, 1, cut - 1)
           rest == SubSeq(sql, cut + 1, Len(sql))
       IN (IF first = <<>> THEN <<>> ELSE <<first>>) \o splitStatements(rest)

(***************************************************************************)
(* The filesystem.  A database file is a sequence of page images; a file   *)
(* exists iff its path is in the domain of fs.                             *)
(***************************************************************************)
\* a path is [dir, name]; the live database is DB_PATH ?? DEFAULT_DB_PATH
DEFAULT_DB_PATH == [dir |-> "local.db", name |-> <<0, 0>>]

\* the database images the live file may hold
DbContents == {<<1>>, <<2, 1>>}

MsPerSecond == 1000

\* the milliseconds cut off the timestamp
TimestampSeconds(now) == <<now \div MsPerSecond, 0>>

\* new Date().toISOString().replace(/:/g, '-'): the instant to the millisecond
Timestamp(now) == <<now \div MsPerSecond, now % MsPerSecond>>

BackupPath(now) == [dir |-> "backups", name |-> Timestamp(now)]

Exists(files, path) == path \in DOMAIN files

\* a write that does not truncate a longer file
WriteFileNoTruncate(files, path, bytes) ==
  [q \in DOMAIN files \cup {path} |->
     IF q # path THEN files[q]
     ELSE IF path \in DOMAIN files /\ Len(files[path]) > Len(bytes)
       THEN bytes \o SubSeq(files[path], Len(bytes) + 1, Len(files[path]))
       ELSE bytes]

\* Bun.write: the file at path holds exactly bytes afterwards
WriteFile(files, path, bytes) ==
  [q \in DOMAIN files \cup {path} |-> IF q = path THEN bytes ELSE files[q]]

\* Bun.file(path).bytes()
ReadBytes(files, path) == files[path]

\* Database(sourcePath, readonly).serialize(): the pages of the database in order
Serialize(db) == [i \in 1..Len(db) |-> db[i]]

NoPath == [dir |-> "", name |-> <<0, 0>>]

Null == [sourcePath |-> NoPath, backupPath |-> NoPath]

MigrationBackup(sourcePath, backupPath) ==
  [sourcePath |-> sourcePath, backupPath |-> backupPath]

\* the rollback left out
restoreBackupSkipped(files, bk) == files

\* restoreBackup: the filesystem it leaves
restoreBackup(files, bk) ==
  IF bk = Null THEN files
  ELSE WriteFile(files, bk.sourcePath, ReadBytes(files, bk.backupPath))

(***************************************************************************)
(* The external command executor.                                          *)
(***************************************************************************)
DRIZZLE_TIMEOUT_MS == 30000

DrizzleResult(success, stdout, stderr) ==
  [success |-> success, stdout |-> stdout, stderr |-> stderr]

\* what Bun.spawn raising looks like to the caller of runDrizzleKit
Thrown == [success |-> FALSE, stdout |-> <<Other("<thrown>")>>, stderr |-> <<Other("<thrown>")>>]

\* `drizzle-kit ${args.join(' ')} timed out after ${DRIZZLE_TIMEOUT_MS / 1000}s`
TimeoutMessage(args) ==
  <<Word("drizzle-kit")>> \o Words(args)
    \o <<Word("timed"), Word("out"), Word("after"),
         GluedWord(ToString(DRIZZLE_TIMEOUT_MS \div 1000), "", "post")>>

\* texts a drizzle-kit process may leave on stderr
StderrTexts ==
  { <<>>,
    <<Word("connect"), UpWord("ECONNREFUSED", "econnrefused"), Other("127.0.0.1:5432")>>,
    <<Other("code:"), UpWord("ECONNREFUSED", "econnrefused")>>,
    <<Word("getaddrinfo"), UpWord("ENOTFOUND", "enotfound")>>,
    <<Word("operation"), Word("timed"), Word("out")>>,
    <<Word("host"), Word("not"), Word("found")>>,
    <<UpWord("Connection", "connection"), Word("refused")>>,
    <<GluedWord("reconnecting", "connect", "pre")>>,
    <<Word("merge"), Word("conflict"), Word("connection"), Word("lost")>>,
    <<GluedWord("unmerged", "merge", "pre"), Word("journal")>>,
    <<UpWord("SQLITE_ERROR", "sqlite_error"), Word("syntax")>> }

StdoutTexts == { <<>>, <<Word("pulling"), Word("schema")>> }

\* the results one run of `bunx drizzle-kit <args>` can have
DrizzleOutcomes(args) ==
  {DrizzleResult(TRUE, out, err) : out \in StdoutTexts, err \in {<<>>}}
    \cup {DrizzleResult(FALSE, out, err) : out \in {<<>>}, err \in StderrTexts}
    \cup {DrizzleResult(FALSE, out, <<>>) : out \in StdoutTexts}
    \cup {DrizzleResult(FALSE, <<>>, TimeoutMessage(args))}
    \cup {Thrown}

(***************************************************************************)
(* The drizzle/ directory: a function from a path [name, ext] to the text  *)
(* of the file.                                                            *)
(***************************************************************************)
SqlFile(n) == [name |-> n, ext |-> "sql"]

MetaFile(n) == [name |-> n, ext |-> "json"]

\* the drizzle/ directory itself: it exists iff this path is in the domain
RootDir == [name |-> 0, ext |-> "/"]

\* await access(dir) does not throw
DirExists(dir) == RootDir \in DOMAIN dir

\* a snapshot that takes every file, whatever its extension
listSqlFilesAnyExtension(dir) ==
  IF ~DirExists(dir) THEN <<>>
  ELSE [q \in {f \in DOMAIN dir : f # RootDir} |-> dir[q]]

\* listSqlFiles: the .sql files under the directory, with their text; the
\* empty map, and no error, when the directory does not exist
listSqlFiles(dir) ==
  IF ~DirExists(dir) THEN <<>>
  ELSE [q \in {f \in DOMAIN dir : f.ext = "sql"} |-> dir[q]]

\* migration files drizzle-kit generate may write
GenFiles ==
  { \* ALTER TABLE users ADD COLUMN bio text;
    <<UpWord("ALTER", "alter"), UpWord("TABLE", "table"), Word("users"),
      UpWord("ADD", "add"), UpWord("COLUMN", "column"), Word("bio"), Word("text"), Semi>>,
    \* DROP TABLE sessions;
    <<UpWord("DROP", "drop"), UpWord("TABLE", "table"), Word("sessions"), Semi>>,
    \* CREATE INDEX idx ON users (bio);
    <<UpWord("CREATE", "create"), UpWord("INDEX", "index"), Word("idx"),
      UpWord("ON", "on"), Word("users"), Other("(bio)"), Semi>> }

\* the diff that takes only the files that were not there before
changedSqlNewOnly(before, after) ==
  LET changed == {q \in DOMAIN after : q \notin DOMAIN before}
      Ordered[S \in SUBSET changed] ==
        IF S = {} THEN <<>>
        ELSE LET q == CHOOSE x \in S : \A y \in S : x.name <= y.name
             IN splitStatements(after[q]) \o Ordered[S \ {q}]
  IN Ordered[changed]

\* the statements of the files that are new or whose text differs (lines 285-294)
changedSql(before, after) ==
  LET changed == {q \in DOMAIN after : ~(q \in DOMAIN before /\ before[q] = after[q])}
      \* Map iteration order: the order of the directory walk
      Ordered[S \in SUBSET changed] ==
        IF S = {} THEN <<>>
        ELSE LET q == CHOOSE x \in S : \A y \in S : x.name <= y.name
             IN splitStatements(after[q]) \o Ordered[S \ {q}]
  IN Ordered[changed]

\* every in place of some
requiresConfirmationEvery(chs) == \A i \in 1..Len(chs) : chs[i].isDestructive

\* changes.some((change) => change.isDestructive)
requiresConfirmation(chs) == \E i \in 1..Len(chs) : chs[i].isDestructive

\* the test reads the other option
PreviewRequestedWrongFlag(opts) == opts.production

\* if (options.preview)
PreviewRequested(opts) == opts.preview

\* the production option never consulted
ProductionRequestedNever(opts) == FALSE

\* if (options.production)
ProductionRequested(opts) == opts.production

\* the prompt is shown without the backup step
AfterGateNoBackup(chs) == IF requiresConfirmation(chs) THEN "confirming" ELSE "applying"

\* lines 319-326: the step that follows the production gate
AfterGate(chs) == IF requiresConfirmation(chs) THEN "backup" ELSE "applying"

(***************************************************************************)
(* displayDiff (lines 174-213): the lines it prints, in order.  A line is  *)
(* a record [line, type, table, column]; line tells which console.log it   *)
(* came from.                                                              *)
(***************************************************************************)
Line(line, type, table, column) ==
  [line |-> line, type |-> type, table |-> table, column |-> column]

Title(line) == Line(line, "", "", "")

\* change.column ?? '' and change.column ? `.${change.column}` : ''
ColumnOrEmpty(c) == IF c.column = NoColumn THEN "" ELSE c.column

\* one group: its title, one line for each entry, an empty line; nothing at
\* all when the group has no entry
Group(title, entry, entries) ==
  IF entries = <<>> THEN <<>>
  ELSE <<Title(title)>>
         \o [i \in 1..Len(entries) |->
               Line(entry, entries[i].type, entries[i].table, ColumnOrEmpty(entries[i]))]
         \o <<Title("blank")>>

\* the destructive group: every entry is followed by `This will DELETE DATA`
DestructiveGroup(entries) ==
  IF entries = <<>> THEN <<>>
  ELSE <<Title("destructive_title")>>
         \o Concat([i \in 1..Len(entries) |->
                      <<Line("destructive", entries[i].type, entries[i].table,
                             ColumnOrEmpty(entries[i])),
                        Title("delete_data_warning")>>])
         \o <<Title("blank")>>

\* the destructive group printed without its warning lines
displayDiffNoWarning(chs) ==
  <<Title("header")>> \o
    IF chs = <<>> THEN <<Title("no_changes")>>
    ELSE Group("new_tables_title", "new_table",
               SelectSeq(chs, LAMBDA c : c.type = "create_table"))
           \o Group("new_columns_title", "new_column",
                    SelectSeq(chs, LAMBDA c : c.type = "add_column"))
           \o Group("modified_title", "modified",
                    SelectSeq(chs, LAMBDA c : c.type = "modify_column"))
           \o Group("destructive_title", "destructive",
                    SelectSeq(chs, LAMBDA c : c.isDestructive))

\* the empty list printed as a list of empty groups
displayDiffNoEmptyCase(chs) ==
  <<Title("header")>>
    \o Group("new_tables_title", "new_table",
             SelectSeq(chs, LAMBDA c : c.type = "create_table"))
    \o Group("new_columns_title", "new_column",
             SelectSeq(chs, LAMBDA c : c.type = "add_column"))
    \o Group("modified_title", "modified",
             SelectSeq(chs, LAMBDA c : c.type = "modify_column"))
    \o DestructiveGroup(SelectSeq(chs, LAMBDA c : c.isDestructive))

\* displayDiff
displayDiff(chs) ==
  <<Title("header")>> \o
    IF chs = <<>> THEN <<Title("no_changes")>>
    ELSE Group("new_tables_title", "new_table",
               SelectSeq(chs, LAMBDA c : c.type = "create_table"))
           \o Group("new_columns_title", "new_column",
                    SelectSeq(chs, LAMBDA c : c.type = "add_column"))
           \o Group("modified_title", "modified",
                    SelectSeq(chs, LAMBDA c : c.type = "modify_column"))
           \o DestructiveGroup(SelectSeq(chs, LAMBDA c : c.isDestructive))

(***************************************************************************)
(* Failure classification (runMigrateCommand and collectChangesFromGenerate)*)
(***************************************************************************)
ConnWords == {"connect", "connection", "econnrefused", "econnreset", "enotfound", "etimedout"}

\* the pattern without its i flag
ConnectionTestCaseSensitive(text) ==
  \E i \in 1..Len(text) :
    text[i].t = "w" /\ text[i].v \in ConnWords /\ text[i].glue = "none"

\* /\b(?:connect(?:ion)?|econnrefused|econnreset|enotfound|etimedout)\b/i.test(text)
ConnectionTest(text) ==
  \E i \in 1..Len(text) :
    text[i].t = "w" /\ text[i].core \in ConnWords /\ text[i].glue = "none"

\* /conflict|merge/i.test(text)
ConflictTest(text) ==
  \E i \in 1..Len(text) : text[i].t = "w" /\ text[i].core \in {"conflict", "merge"}

Outcome(kind, detail) == [kind |-> kind, detail |-> detail]

\* a || b on strings: a unless it is empty
OrElse(a, b) == IF a # <<>> THEN a ELSE b

\* the conflict test placed before the connection test
ClassifyPushFailureConflictFirst(res) ==
  IF ConflictTest(res.stderr) THEN Outcome("ConflictError", res.stderr)
  ELSE IF ConnectionTest(res.stderr) THEN Outcome("ConnectionError", res.stderr)
  ELSE Outcome("ApplyFailure", OrElse(res.stderr, res.stdout))

\* lines 332-340: the error a failed push is raised as
ClassifyPushFailure(res) ==
  IF ConnectionTest(res.stderr) THEN Outcome("ConnectionError", res.stderr)
  ELSE IF ConflictTest(res.stderr) THEN Outcome("ConflictError", res.stderr)
  ELSE Outcome("ApplyFailure", OrElse(res.stderr, res.stdout))

\* the conflict test of line 277 left out
ClassifyGenerateFailureGenericOnly(res) ==
  Outcome("GenerationFailure", OrElse(res.stderr, res.stdout))

\* lines 276-282: the error a failed generate is raised as
ClassifyGenerateFailure(res) ==
  IF ConflictTest(res.stderr) THEN Outcome("GenerationConflict", res.stderr)
  ELSE Outcome("GenerationFailure", OrElse(res.stderr, res.stdout))

\* what the operator may type at the prompt of confirmDestructive
TypedTexts == {"delete data", "no", "Delete Data", "", "delete data "}

\* the phrase compared without regard to letter case
PhraseAcceptedAnyCase(confirmation) == confirmation \in {"delete data", "Delete Data"}

\* confirmation !== 'delete data' is false
PhraseAccepted(confirmation) == confirmation = "delete data"

ErrorKinds ==
  {"GenerationConflict", "GenerationFailure", "ConnectionError", "ConflictError",
   "ApplyFailure", "BackupError", "SpawnError"}

\* the catch of index.ts leaving the exit code alone
ExitCodeOfNeverSet(kind) == 0

\* a declined confirmation reported as a failure
ExitCodeOfDeclineFails(kind) == IF kind \in ErrorKinds \cup {"declined"} THEN 1 ELSE 0

\* the if (import.meta.main) block of index.ts: exitCode 1 for a raised error
ExitCodeOf(kind) == IF kind \in ErrorKinds THEN 1 ELSE 0

(***************************************************************************)
(* State.                                                                  *)
(***************************************************************************)
VARIABLES
  fs,          \* files holding database images: the live file and the backups
  backupsDir,  \* whether the backups/ directory exists
  drizzle,     \* the files of the drizzle/ directory
  now,         \* the wall clock, in milliseconds
  runs,        \* invocations started so far
  pc,          \* where the invocation in progress stands
  options,     \* its options { preview, production }
  before,      \* its snapshot of drizzle/ taken before generation
  changes,     \* its classified changes
  backup,      \* its MigrationBackup, or Null
  typed,       \* the text typed at the phrase prompt
  push,        \* the result of its drizzle-kit push
  outcome,     \* how it ended: [kind, detail]
  exitCode,    \* process.exitCode
  trace,       \* what it did so far, in order
  dbAtStart,   \* the live database file when it started (a file, or none)
  dbAfterPush, \* the live database file as its drizzle-kit push left it
  exec,        \* one call of runDrizzleKit, followed step by step
  analysis,    \* one call of analyzeMigration: its statements and its records
  realtime     \* the RealtimeServer of templates/base: its two maps

command == <<fs, backupsDir, drizzle, now, runs, pc, options, before, changes, backup,
             typed, push, outcome, exitCode, trace, dbAtStart, dbAfterPush>>

units == <<exec, analysis, realtime>>

vars == <<command, units>>

durable == <<fs, backupsDir, drizzle>>

NoResult == DrizzleResult(FALSE, <<Other("<none>")>>, <<Other("<none>")>>)

Running == Outcome("running", <<>>)

NotTyped == "<no prompt>"

\* the live database file as a function: empty when there is no file
DbFile(files) == [q \in DOMAIN files \cap {DEFAULT_DB_PATH} |-> files[q]]

\* analyzeMigration before it is called
NotAnalyzed ==
  [called |-> FALSE, sqlStatements |-> <<>>, changes |-> <<>>,
   displayed |-> FALSE, output |-> <<>>]

(***************************************************************************)
(* RealtimeServer (templates/base/src/lib/realtime.ts, lines 27-186).  A   *)
(* Map is a function on the set of its keys; a Set of sockets is the       *)
(* sequence of its members in insertion order, the order broadcast walks.  *)
(***************************************************************************)
\* the ServerWebSocket objects the server is handed
Sockets == {"ws1", "ws2"}

Tables == {"users", "posts"}

EmptyMap == [k \in {} |-> k]

MapSet(m, k, v) == [x \in DOMAIN m \cup {k} |-> IF x = k THEN v ELSE m[x]]

MapDelete(m, k) == [x \in DOMAIN m \ {k} |-> m[x]]

Members(set) == {set[i] : i \in 1..Len(set)}

SetAdd(set, x) == IF x \in Members(set) THEN set ELSE Append(set, x)

SetDelete(set, x) == SelectSeq(set, LAMBDA y : y # x)

\* a filter or a payload object is the set of its entries; no filter is {}
NoFilter == {}

Filters == {NoFilter, {<<"id", 1>>}}

Payloads ==
  { [object |-> TRUE, entries |-> {<<"id", 1>>}],
    [object |-> TRUE, entries |-> {<<"id", 2>>}],
    [object |-> FALSE, entries |-> {}] }

\* lines 159-170
matchesFilter(filter, payload) ==
  IF filter = {} THEN TRUE
  ELSE IF ~payload.object THEN FALSE
  ELSE filter \subseteq payload.entries

\* lines 28-29
NewServer == [clients |-> EmptyMap, tableSubscribers |-> EmptyMap]

\* lines 31-37
handleConnection(srv, ws) ==
  [srv EXCEPT !.clients = MapSet(@, ws, [ws |-> ws, subscriptions |-> EmptyMap])]

\* lines 116-137
subscribe(srv, ws, table, filter) ==
  IF ws \notin DOMAIN srv.clients THEN srv
  ELSE LET client == srv.clients[ws]
           subscribers == IF table \in DOMAIN srv.tableSubscribers
                            THEN srv.tableSubscribers[table] ELSE <<>>
       IN  [clients |->
              MapSet(srv.clients, ws,
                     [client EXCEPT !.subscriptions =
                        MapSet(@, table, [table |-> table, filter |-> filter])]),
            tableSubscribers |->
              MapSet(srv.tableSubscribers, table, SetAdd(subscribers, ws))]

\* subscribers?.delete(ws), then the table dropped when its set is empty
\* (lines 70-75 and 146-151)
dropSubscriber(tableSubscribers, table, ws) ==
  IF table \notin DOMAIN tableSubscribers THEN tableSubscribers
  ELSE IF SetDelete(tableSubscribers[table], ws) = <<>>
    THEN MapDelete(tableSubscribers, table)
    ELSE MapSet(tableSubscribers, table, SetDelete(tableSubscribers[table], ws))

\* lines 139-157
unsubscribe(srv, ws, table) ==
  IF ws \notin DOMAIN srv.clients THEN srv
  ELSE [clients |->
          MapSet(srv.clients, ws,
                 [srv.clients[ws] EXCEPT !.subscriptions = MapDelete(@, table)]),
        tableSubscribers |-> dropSubscriber(srv.tableSubscribers, table, ws)]

\* a message as JSON.parse leaves it: valid is FALSE when parsing throws, and
\* "" stands for a missing type or table
Message(valid, type, table, filter) ==
  [valid |-> valid, type |-> type, table |-> table, filter |-> filter]

Messages ==
  {Message(FALSE, "", "", NoFilter), Message(TRUE, "", "users", NoFilter),
   Message(TRUE, "subscribe", "", NoFilter), Message(TRUE, "ping", "users", NoFilter)}
    \cup {Message(TRUE, "subscribe", t, f) : t \in Tables, f \in Filters}
    \cup {Message(TRUE, "unsubscribe", t, NoFilter) : t \in Tables}

\* lines 39-62
handleMessage(srv, ws, data) ==
  IF ~data.valid THEN srv
  ELSE IF data.type = "" \/ data.table = "" THEN srv
  ELSE IF data.type = "subscribe" THEN subscribe(srv, ws, data.table, data.filter)
  ELSE IF data.type = "unsubscribe" THEN unsubscribe(srv, ws, data.table)
  ELSE srv

\* the loop of lines 69-76, one table of client.subscriptions after another
RECURSIVE closeTables(_, _, _)
closeTables(tableSubscribers, tables, ws) ==
  IF tables = {} THEN tableSubscribers
  ELSE LET table == CHOOSE t \in tables : TRUE
       IN  closeTables(dropSubscriber(tableSubscribers, table, ws), tables \ {table}, ws)

\* lines 64-80
handleClose(srv, ws) ==
  [clients |-> MapDelete(srv.clients, ws),
   tableSubscribers |->
     IF ws \in DOMAIN srv.clients
       THEN closeTables(srv.tableSubscribers, DOMAIN srv.clients[ws].subscriptions, ws)
       ELSE srv.tableSubscribers]

\* client?.subscriptions.get(table)?.filter (lines 101-103)
filterOf(srv, ws, table) ==
  IF ws \in DOMAIN srv.clients /\ table \in DOMAIN srv.clients[ws].subscriptions
    THEN srv.clients[ws].subscriptions[table].filter
    ELSE NoFilter

\* lines 100-111 over the copy [...subscribers]; attached tells whether the Set
\* the loop holds is still the one in tableSubscribers; failing holds the
\* sockets for which safeSend returns false
RECURSIVE broadcastLoop(_, _, _, _, _, _)
broadcastLoop(srv, table, data, failing, copy, attached) ==
  IF copy = <<>> THEN srv
  ELSE LET ws == Head(copy)
       IN  IF ~matchesFilter(filterOf(srv, ws, table), data) \/ ws \notin failing
             THEN broadcastLoop(srv, table, data, failing, Tail(copy), attached)
             ELSE LET deleted ==
                        IF attached
                          THEN [srv EXCEPT !.tableSubscribers[table] = SetDelete(@, ws)]
                          ELSE srv
                      closed == handleClose(deleted, ws)
                  IN  broadcastLoop(closed, table, data, failing, Tail(copy),
                                    attached /\ table \in DOMAIN closed.tableSubscribers)

\* lines 82-114
broadcast(srv, table, data, failing) ==
  IF table \notin DOMAIN srv.tableSubscribers \/ srv.tableSubscribers[table] = <<>>
    THEN srv
    ELSE broadcastLoop(srv, table, data, failing, srv.tableSubscribers[table], TRUE)


\* runDrizzleKit before it is called: no timer, no process, no result
NotCalled ==
  [pc |-> "idle", args |-> <<>>, timer |-> "none", proc |-> "none", elapsed |-> 0,
   cause |-> "none", result |-> NoResult]

OptionSets ==
  { [preview |-> FALSE, production |-> FALSE],     \* bb migrate
    [preview |-> TRUE, production |-> FALSE],      \* bb migrate:preview
    [preview |-> FALSE, production |-> TRUE] }     \* bb migrate:production

Init ==
  /\ fs \in {<<>>} \cup {WriteFile(<<>>, DEFAULT_DB_PATH, d) : d \in DbContents}
  /\ backupsDir = FALSE
  /\ drizzle = <<>>
  /\ now = 0
  /\ runs = 0
  /\ pc = "idle"
  /\ options = [preview |-> FALSE, production |-> FALSE]
  /\ before = <<>>
  /\ changes = <<>>
  /\ backup = Null
  /\ typed = NotTyped
  /\ push = NoResult
  /\ outcome = Running
  /\ exitCode = 0
  /\ trace = <<>>
  /\ dbAtStart = <<>>
  /\ dbAfterPush = <<>>
  /\ exec = NotCalled
  /\ analysis = NotAnalyzed
  /\ realtime = NewServer

\* the invocation ends: by return (exit code 0) or by a raised error
Exit(o) ==
  /\ pc' = "exited"
  /\ outcome' = o
  /\ exitCode' = ExitCodeOf(o.kind)

(***************************************************************************)
(* Actions: one invocation of runMigrateCommand, step by step.             *)
(***************************************************************************)

\* index.ts 49-68 and migrate.ts 299-302: the operator starts a command; at
\* least one millisecond has passed since the previous one read the clock
StartRun(opts, tick) ==
  /\ pc \in {"idle", "exited"}
  /\ runs < MaxRuns
  /\ runs' = runs + 1
  /\ now' = now + tick
  /\ pc' = "generating"
  /\ options' = opts
  /\ before' = <<>>
  /\ changes' = <<>>
  /\ backup' = Null
  /\ typed' = NotTyped
  /\ push' = NoResult
  /\ outcome' = Running
  /\ exitCode' = 0
  /\ trace' = <<"start">>
  /\ dbAtStart' = DbFile(fs)
  /\ dbAfterPush' = <<>>
  /\ UNCHANGED durable
  /\ UNCHANGED units

\* lines 273-282: snapshot, then drizzle-kit generate, which writes at most one
\* new migration file (and its meta file) into drizzle/
Generate(res, written) ==
  /\ pc = "generating"
  /\ before' = listSqlFiles(drizzle)
  /\ IF res = Thrown
       THEN /\ Exit(Outcome("SpawnError", <<>>))
            /\ trace' = trace \o <<"raise">>
            /\ UNCHANGED drizzle
       ELSE IF ~res.success
         THEN /\ Exit(ClassifyGenerateFailure(res))
              /\ trace' = trace \o <<"generate", "raise">>
              /\ UNCHANGED drizzle
         ELSE /\ pc' = "diffing"
              /\ trace' = trace \o <<"generate">>
              /\ drizzle' =
                   IF written = <<>> THEN drizzle
                   ELSE [q \in DOMAIN drizzle \cup {RootDir, SqlFile(runs), MetaFile(runs)} |->
                           IF q = SqlFile(runs) THEN written
                           ELSE IF q = MetaFile(runs) THEN <<Other("{}")>>
                           ELSE IF q = RootDir THEN <<>>
                           ELSE drizzle[q]]
              /\ UNCHANGED <<outcome, exitCode>>
  /\ UNCHANGED <<fs, backupsDir, now, runs, options, changes, backup, typed, push,
                 dbAtStart, dbAfterPush>>
  /\ UNCHANGED units

\* lines 284-296 and 304: second snapshot, classification, displayDiff
Diff ==
  /\ pc = "diffing"
  /\ changes' = analyzeMigration(changedSql(before, listSqlFiles(drizzle)))
  /\ trace' = trace \o <<"diff">>
  /\ pc' = "classified"
  /\ UNCHANGED <<durable, now, runs, options, before, backup, typed, push, outcome,
                 exitCode, dbAtStart, dbAfterPush>>
  /\ UNCHANGED units

\* lines 306-309
Preview ==
  /\ pc = "classified"
  /\ PreviewRequested(options)
  /\ trace' = trace \o <<"preview_msg">>
  /\ Exit(Outcome("preview", <<>>))
  /\ UNCHANGED <<durable, now, runs, options, before, changes, backup, typed, push,
                 dbAtStart, dbAfterPush>>
  /\ UNCHANGED units

\* lines 311-320: the production yes/no prompt, then the branch on destructiveness
Gate(proceed) ==
  /\ pc = "classified"
  /\ ~PreviewRequested(options)
  /\ ProductionRequested(options) \/ proceed
  /\ IF ProductionRequested(options) /\ ~proceed
       THEN /\ trace' = trace \o <<"production_prompt", "cancel_msg">>
            /\ Exit(Outcome("cancelled", <<>>))
       ELSE /\ trace' = trace \o (IF ProductionRequested(options) THEN <<"production_prompt">> ELSE <<>>)
            /\ pc' = AfterGate(changes)
            /\ UNCHANGED <<outcome, exitCode>>
  /\ UNCHANGED <<durable, now, runs, options, before, changes, backup, typed, push,
                 dbAtStart, dbAfterPush>>
  /\ UNCHANGED units

\* a backup step that swallows the I/O error and goes on without a backup
BackupSwallowsError(ioError) ==
  /\ pc = "backup"
  /\ IF ~Exists(fs, DEFAULT_DB_PATH)
       THEN /\ ~ioError
            /\ backup' = Null
            /\ trace' = trace \o <<"no_database_warning", "backup_null">>
            /\ pc' = "confirming"
            /\ UNCHANGED <<fs, backupsDir, outcome, exitCode>>
       ELSE IF ioError
         THEN /\ backupsDir' \in {backupsDir, TRUE}
              /\ trace' = trace \o <<"backup_null">>
              /\ pc' = "confirming"
              /\ UNCHANGED <<fs, backup, outcome, exitCode>>
         ELSE /\ backupsDir' = TRUE
              /\ fs' = WriteFile(fs, BackupPath(now), Serialize(fs[DEFAULT_DB_PATH]))
              /\ backup' = MigrationBackup(DEFAULT_DB_PATH, BackupPath(now))
              /\ trace' = trace \o <<"backup_saved">>
              /\ pc' = "confirming"
              /\ UNCHANGED <<outcome, exitCode>>
  /\ UNCHANGED <<drizzle, now, runs, options, before, changes, typed, push, dbAtStart, dbAfterPush>>
  /\ UNCHANGED units

\* line 321 and backupDatabase (231-256); ioError: mkdir, serialize or write throws
Backup(ioError) ==
  /\ pc = "backup"
  /\ IF ~Exists(fs, DEFAULT_DB_PATH)
       THEN /\ ~ioError
            /\ backup' = Null
            /\ trace' = trace \o <<"no_database_warning", "backup_null">>
            /\ pc' = "confirming"
            /\ UNCHANGED <<fs, backupsDir, outcome, exitCode>>
       ELSE IF ioError
         THEN /\ backupsDir' \in {backupsDir, TRUE}
              /\ trace' = trace \o <<"raise">>
              /\ Exit(Outcome("BackupError", <<>>))
              /\ UNCHANGED <<fs, backup>>
         ELSE /\ backupsDir' = TRUE
              /\ fs' = WriteFile(fs, BackupPath(now), Serialize(fs[DEFAULT_DB_PATH]))
              /\ backup' = MigrationBackup(DEFAULT_DB_PATH, BackupPath(now))
              /\ trace' = trace \o <<"backup_saved">>
              /\ pc' = "confirming"
              /\ UNCHANGED <<outcome, exitCode>>
  /\ UNCHANGED <<drizzle, now, runs, options, before, changes, typed, push, dbAtStart, dbAfterPush>>
  /\ UNCHANGED units

\* lines 322-323 and confirmDestructive (215-229)
Confirm(confirmation) ==
  /\ pc = "confirming"
  /\ typed' = confirmation
  /\ IF PhraseAccepted(confirmation)
       THEN /\ trace' = trace \o <<"destructive_list", "phrase_prompt", "confirmed">>
            /\ pc' = "applying"
            /\ UNCHANGED <<outcome, exitCode>>
       ELSE /\ trace' = trace \o <<"destructive_list", "phrase_prompt", "mismatch_warning">>
            /\ Exit(Outcome("declined", <<>>))
  /\ UNCHANGED <<durable, now, runs, options, before, changes, backup, push, dbAtStart, dbAfterPush>>
  /\ UNCHANGED units

\* what drizzle-kit push may leave in the live database file
PushEffects(files) ==
  {files} \cup {WriteFile(files, DEFAULT_DB_PATH, d) : d \in DbContents}

\* a failed push sent back to be spawned again
AfterFailedPushRetry == "applying"

\* lines 329-330: a failed push leads to restoreBackup and the throw, nowhere else
AfterFailedPush == "rollback"

\* lines 326-329 and 343: drizzle-kit push runs to its end and the result is known
Apply(res, files) ==
  /\ pc = "applying"
  /\ IF res = Thrown
       THEN /\ trace' = trace \o <<"raise">>
            /\ Exit(Outcome("SpawnError", <<>>))
            /\ UNCHANGED <<fs, push, dbAfterPush>>
       ELSE /\ fs' = files
            /\ dbAfterPush' = DbFile(files)
            /\ push' = res
            /\ IF res.success
                 THEN /\ trace' = trace \o <<"push_spawn", "push_result", "complete_msg">>
                      /\ Exit(Outcome("applied", <<>>))
                 ELSE /\ trace' = trace \o <<"push_spawn", "push_result">>
                      /\ pc' = AfterFailedPush
                      /\ UNCHANGED <<outcome, exitCode>>
  /\ UNCHANGED <<backupsDir, drizzle, now, runs, options, before, changes, backup, typed,
                 dbAtStart>>
  /\ UNCHANGED units

\* the backup restored without a word
restoreBackupLogSilent(bk) == IF bk = Null THEN <<>> ELSE <<"restore">>

\* the rollback reported whether or not there is a backup
restoreBackupLogAlways(bk) == <<"restore", "rollback_msg">>

\* restoreBackup: what it does and prints; nothing at all for a null backup
restoreBackupLog(bk) == IF bk = Null THEN <<>> ELSE <<"restore", "rollback_msg">>

\* line 330 and restoreBackup (258-263)
Restore ==
  /\ pc = "rollback"
  /\ fs' = restoreBackup(fs, backup)
  /\ trace' = trace \o restoreBackupLog(backup)
  /\ pc' = "failed"
  /\ UNCHANGED <<backupsDir, drizzle, now, runs, options, before, changes, backup, typed,
                 push, outcome, exitCode, dbAtStart, dbAfterPush>>
  /\ UNCHANGED units

\* lines 332-340: the failure is classified and raised
Raise ==
  /\ pc = "failed"
  /\ trace' = trace \o <<"raise">>
  /\ Exit(ClassifyPushFailure(push))
  /\ UNCHANGED <<durable, now, runs, options, before, changes, backup, typed, push,
                 dbAtStart, dbAfterPush>>
  /\ UNCHANGED units

Next ==
  \/ \E opts \in OptionSets, tick \in 1..MaxTick : StartRun(opts, tick)
  \/ \E res \in DrizzleOutcomes(<<"generate">>), written \in GenFiles \cup {<<>>} :
       Generate(res, written)
  \/ Diff
  \/ Preview
  \/ \E proceed \in BOOLEAN : Gate(proceed)
  \/ \E ioError \in BOOLEAN : Backup(ioError)
  \/ \E confirmation \in TypedTexts : Confirm(confirmation)
  \/ \E res \in DrizzleOutcomes(<<"push">>), files \in PushEffects(fs) : Apply(res, files)
  \/ Restore
  \/ Raise

Spec == Init /\ [][Next]_vars

(***************************************************************************)
(* Properties.                                                             *)
(***************************************************************************)
Has(ev) == \E i \in 1..Len(trace) : trace[i] = ev

Pos(ev) == Min({i \in 1..Len(trace) : trace[i] = ev})

Precedes(a, b) == Has(a) /\ Has(b) /\ Pos(a) < Pos(b)

Destructive == \E i \in 1..Len(changes) : changes[i].isDestructive

BackupStepDone == Has("backup_saved") \/ Has("backup_null")

PushFailed == push # NoResult /\ ~push.success

BackupFiles(files) == {q \in DOMAIN files : q.dir = "backups"}

ApplyErrors == {"ConnectionError", "ConflictError", "ApplyFailure"}

\* C1: a preview run (migrate:preview) of any change set, destructive or not,
\* presents the diff and returns: no backup step, no prompt of either kind and
\* no drizzle-kit push, and the filesystem of database images is left alone.
C1_PreviewNeverApplies ==
  options.preview =>
    /\ ~Has("backup_saved") /\ ~Has("backup_null") /\ backup = Null
    /\ ~Has("production_prompt") /\ ~Has("phrase_prompt") /\ typed = NotTyped
    /\ ~Has("push_spawn") /\ push = NoResult
    /\ pc \notin {"backup", "confirming", "applying", "rollback", "failed"}
    /\ DbFile(fs) = dbAtStart
    /\ (pc = "exited" /\ Has("diff")) =>
         (outcome.kind = "preview" /\ exitCode = 0 /\ Has("preview_msg"))

C1_Witness ==
  /\ pc = "exited"
  /\ options.preview
  /\ Destructive
  /\ outcome.kind = "preview"

\* C2: in a run whose change set holds a destructive change, drizzle-kit push is
\* spawned only if the text typed at the prompt was exactly `delete data`; any
\* other typed text ends the run without a push.
C2_PushOnlyAfterExactPhrase ==
  /\ (Destructive /\ (Has("push_spawn") \/ pc \in {"applying", "rollback", "failed"}))
       => typed = "delete data"
  /\ (typed \notin {NotTyped, "delete data"})
       => (~Has("push_spawn") /\ push = NoResult /\ pc = "exited")

C2_Witness ==
  /\ Destructive
  /\ typed = "Delete Data"
  /\ pc = "exited"

\* C3: a declined confirmation is a clean cancellation: no error is raised and
\* the exit code is 0, the live database file is what it was when the run
\* started, nothing was restored, and the backup written before the prompt is
\* still there, holding the database it was taken from.
C3_DeclineIsClean ==
  outcome.kind = "declined" =>
    /\ pc = "exited" /\ exitCode = 0 /\ ~Has("raise")
    /\ DbFile(fs) = dbAtStart
    /\ ~Has("restore")
    /\ backup # Null =>
         /\ Exists(fs, backup.backupPath)
         /\ fs[backup.backupPath] = dbAtStart[DEFAULT_DB_PATH]

C3_Witness ==
  /\ outcome.kind = "declined"
  /\ backup # Null
  /\ typed = "no"

\* C4: the steps of a run are ordered: the backup step has ended, with a backup
\* record or with the null outcome, before the phrase prompt is shown; when a
\* confirmation is required it has been accepted before drizzle-kit push is
\* spawned; and the result of the push is known before the run ends.
C4_StepsOrdered ==
  /\ (pc = "confirming" \/ Has("phrase_prompt")) =>
       /\ BackupStepDone
       /\ Has("backup_saved") <=> backup # Null
       /\ Has("phrase_prompt") =>
            (Precedes("backup_saved", "phrase_prompt")
               \/ Precedes("backup_null", "phrase_prompt"))
  /\ (Destructive /\ (pc = "applying" \/ Has("push_spawn"))) =>
       /\ Has("confirmed")
       /\ Has("push_spawn") => Precedes("confirmed", "push_spawn")
  /\ Has("push_spawn") =>
       /\ push # NoResult
       /\ Precedes("push_spawn", "push_result")
       /\ pc = "exited" =>
            (Precedes("push_result", "complete_msg") \/ Precedes("push_result", "raise"))
  /\ ~Has("push_spawn") => push = NoResult

C4_Witness ==
  /\ pc = "exited"
  /\ Destructive
  /\ backup # Null
  /\ Has("push_result")
  /\ outcome.kind = "applied"

\* C5: in a run that is not a preview and has passed the production gate, the
\* backup step is entered iff some classified change is destructive, and the
\* phrase prompt follows it (unless the backup itself raised); with no
\* destructive change there is no backup, no prompt, and the push is next.
C5_GateIffDestructive ==
  (~options.preview /\ pc \notin {"idle", "generating", "diffing", "classified"}
     /\ Has("diff") /\ outcome.kind # "cancelled") =>
    /\ Destructive <=> (pc = "backup" \/ BackupStepDone \/ outcome.kind = "BackupError")
    /\ Destructive <=>
         (pc = "backup" \/ pc = "confirming" \/ Has("phrase_prompt")
            \/ outcome.kind = "BackupError")
    /\ ~Destructive =>
         /\ backup = Null
         /\ ~Has("backup_saved") /\ ~Has("backup_null")
         /\ typed = NotTyped
         /\ (pc = "applying" \/ Has("push_spawn") \/ outcome.kind = "SpawnError")

C5_Witness ==
  /\ ~options.preview
  /\ Len(changes) > 0
  /\ ~Destructive
  /\ outcome.kind = "applied"

\* C6: when drizzle-kit push fails and the run holds a backup record, the backup
\* is restored before the failure is classified and raised: from then on, and in
\* the failure state the run ends in, the live database file holds what the
\* backup file holds.
C6_RestoreBeforeRaise ==
  (PushFailed /\ backup # Null /\ pc \in {"failed", "exited"}) =>
    /\ Has("restore")
    /\ Exists(fs, DEFAULT_DB_PATH) /\ Exists(fs, backup.backupPath)
    /\ fs[DEFAULT_DB_PATH] = fs[backup.backupPath]
    /\ pc = "exited" =>
         (outcome.kind \in ApplyErrors /\ exitCode = 1 /\ Precedes("restore", "raise"))

C6_Witness ==
  /\ PushFailed
  /\ backup # Null
  /\ pc = "exited"
  /\ dbAtStart # <<>>
  /\ fs[DEFAULT_DB_PATH] = <<1>>

\* C7: a backup is restored only in a run whose drizzle-kit push failed, and no
\* step removes or rewrites a backup file: every file under backups/ stays on
\* disk with the content it was written with, whatever the run does next
\* (successful push, decline, rollback, later runs).
C7_BackupsKept ==
  /\ [](Has("restore") => (PushFailed /\ backup # Null))
  /\ [][\A q \in BackupFiles(fs) : q \in DOMAIN fs' /\ fs'[q] = fs[q]]_vars

C7_Witness ==
  /\ Cardinality(BackupFiles(fs)) = 2
  /\ Has("rollback_msg")
  /\ pc = "exited"

HoldsWord(text, ws) ==
  \E i \in 1..Len(text) : text[i].t = "w" /\ text[i].core \in ws /\ text[i].glue = "none"

HoldsPart(text, ws) ==
  \E i \in 1..Len(text) : text[i].t = "w" /\ text[i].core \in ws

HoldsPhrase(text, ph) ==
  \E i \in 1..Len(text) :
    /\ i + Len(ph) - 1 <= Len(text)
    /\ \A j \in 1..Len(ph) : text[i + j - 1].t = "w" /\ text[i + j - 1].core = ph[j]

\* C9: a drizzle-kit push that exits non-zero with ECONNREFUSED on stderr ends the
\* run with the connection-failure error, never the conflict or the generic one,
\* after the backup (when there is one) has been restored.
C9_ConnRefusedIsConnectionError ==
  (PushFailed /\ pc = "exited" /\ HoldsWord(push.stderr, {"econnrefused"})) =>
    /\ outcome.kind = "ConnectionError"
    /\ outcome.detail = push.stderr
    /\ exitCode = 1
    /\ backup # Null =>
         (Precedes("restore", "raise") /\ fs[DEFAULT_DB_PATH] = fs[backup.backupPath])

C9_Witness ==
  /\ PushFailed
  /\ pc = "exited"
  /\ HoldsWord(push.stderr, {"econnrefused"})
  /\ ~HoldsWord(push.stderr, {"connect", "connection"})
  /\ backup # Null
  /\ dbAfterPush # dbAtStart

ConnectionCodes ==
  {"connect", "connection", "econnrefused", "econnreset", "enotfound", "etimedout"}

RaisedOnce == Cardinality({i \in 1..Len(trace) : trace[i] = "raise"}) = 1

\* C10, as claimed: stderr holding a connection-indicative text, among them the
\* plain phrases `connection refused`, `timed out` and `host not found`, yields
\* the ConnectionError; otherwise conflict or merge yields the ConflictError;
\* everything else the generic ApplyFailure.
C10_PhrasesAreConnectionErrors ==
  (PushFailed /\ pc = "exited") =>
    outcome.kind =
      IF \/ HoldsWord(push.stderr, ConnectionCodes)
         \/ HoldsPhrase(push.stderr, <<"connection", "refused">>)
         \/ HoldsPhrase(push.stderr, <<"timed", "out">>)
         \/ HoldsPhrase(push.stderr, <<"host", "not", "found">>)
        THEN "ConnectionError"
        ELSE IF HoldsPart(push.stderr, {"conflict", "merge"}) THEN "ConflictError"
        ELSE "ApplyFailure"

\* C10, amended: a failed push is classified from its stderr in this order: a
\* whole word, in any letter case, among connect, connection, econnrefused,
\* econnreset, enotfound, etimedout yields the ConnectionError (the phrases
\* `timed out` and `host not found` do not); otherwise conflict or merge anywhere
\* in stderr yields the ConflictError; every other failure yields the generic
\* ApplyFailure carrying stderr, or stdout when stderr is empty.  Exactly one of
\* the three is raised.
C10_ClassifiedInOrder ==
  (PushFailed /\ pc = "exited") =>
    /\ outcome.kind \in ApplyErrors
    /\ RaisedOnce
    /\ exitCode = 1
    /\ outcome =
         IF HoldsWord(push.stderr, ConnectionCodes)
           THEN [kind |-> "ConnectionError", detail |-> push.stderr]
         ELSE IF HoldsPart(push.stderr, {"conflict", "merge"})
           THEN [kind |-> "ConflictError", detail |-> push.stderr]
         ELSE [kind |-> "ApplyFailure",
               detail |-> IF push.stderr = <<>> THEN push.stdout ELSE push.stderr]

C10_Witness ==
  /\ PushFailed
  /\ pc = "exited"
  /\ HoldsPart(push.stderr, {"conflict", "merge"})
  /\ HoldsWord(push.stderr, ConnectionCodes)
  /\ outcome.kind = "ConnectionError"

Count(ev) == Cardinality({i \in 1..Len(trace) : trace[i] = ev})

\* C11: one invocation runs drizzle-kit generate exactly once and then drizzle-kit
\* push at most once: the push is spawned only after the generate run has ended
\* and its files were read back, and a push that failed is not spawned again in
\* the same invocation.
C11_OneGenerateThenAtMostOnePush ==
  /\ Count("generate") <= 1
  /\ Count("push_spawn") <= 1
  /\ (Has("diff") \/ pc \in {"diffing", "classified", "backup", "confirming", "applying",
                            "rollback", "failed"}) => Count("generate") = 1
  /\ (pc = "applying" \/ Has("push_spawn")) =>
       (Precedes("generate", "diff") /\ ((pc = "applying") <=> ~Has("push_result")))
  /\ Has("push_spawn") =>
       (Precedes("diff", "push_spawn") /\ Pos("push_result") = Pos("push_spawn") + 1)
  /\ PushFailed =>
       (pc \in {"rollback", "failed", "exited"} /\ Count("push_spawn") = 1)

C11_Witness ==
  /\ PushFailed
  /\ pc = "exited"
  /\ Count("generate") = 1
  /\ Count("push_spawn") = 1
  /\ outcome.kind = "ApplyFailure"

(***************************************************************************)
(* runDrizzleKit (lines 45-73), step by step: exec follows one call.       *)
(*   pc      idle, spawning, awaiting, returned, raised                    *)
(*   timer   none, armed, fired, cleared  (the setTimeout of line 47)      *)
(*   proc    none, running, killed, exited                                 *)
(*   elapsed milliseconds since the timer was set                          *)
(*   cause   what ended the call: exit, abort, stream, spawn               *)
(***************************************************************************)
\* how the child process may end by itself: exit code, stdout, stderr
ProcessEndings ==
  {[code |-> 0, stdout |-> out, stderr |-> <<>>] : out \in StdoutTexts}
    \cup {[code |-> 1, stdout |-> <<>>, stderr |-> err] : err \in StderrTexts}
    \cup {[code |-> 1, stdout |-> out, stderr |-> <<>>] : out \in StdoutTexts}

\* the lapses of time between two steps of the event loop
Lapses == {DRIZZLE_TIMEOUT_MS \div 2, DRIZZLE_TIMEOUT_MS}

\* lines 65-69: what the catch block returns
CatchResult(args) == DrizzleResult(FALSE, <<>>, TimeoutMessage(args))

\* lines 45-47: the call creates the controller and sets the timer
CallDrizzleKit(args) ==
  /\ exec.pc = "idle"
  /\ exec' = [exec EXCEPT !.pc = "spawning", !.args = args, !.timer = "armed"]
  /\ UNCHANGED <<command, analysis, realtime>>

\* lines 49-54: Bun.spawn, outside the try statement: when it throws, the
\* exception leaves runDrizzleKit and the finally block is never entered
SpawnProcess(spawned) ==
  /\ exec.pc = "spawning"
  /\ exec' = IF spawned
               THEN [exec EXCEPT !.pc = "awaiting", !.proc = "running"]
               ELSE [exec EXCEPT !.pc = "raised", !.cause = "spawn", !.result = Thrown]
  /\ UNCHANGED <<command, analysis, realtime>>

\* time passes while the timer is pending
TimePasses(ms) ==
  /\ exec.timer = "armed"
  /\ exec.elapsed < DRIZZLE_TIMEOUT_MS
  /\ exec' = [exec EXCEPT !.elapsed = exec.elapsed + ms]
  /\ UNCHANGED <<command, analysis, realtime>>

\* line 47: the timer callback runs controller.abort(), which kills the process
TimerFires ==
  /\ exec.timer = "armed"
  /\ exec.elapsed >= DRIZZLE_TIMEOUT_MS
  /\ exec' = [exec EXCEPT !.timer = "fired",
                          !.proc = IF exec.proc = "running" THEN "killed" ELSE exec.proc]
  /\ UNCHANGED <<command, analysis, realtime>>

\* lines 57-63 and 71: the three promises resolve; return, then finally
ProcessExits(ending) ==
  /\ exec.pc = "awaiting"
  /\ exec.proc = "running"
  /\ exec' = [exec EXCEPT !.pc = "returned", !.proc = "exited", !.cause = "exit",
                          !.timer = "cleared",
                          !.result = DrizzleResult(ending.code = 0, ending.stdout,
                                                   ending.stderr)]
  /\ UNCHANGED <<command, analysis, realtime>>

\* lines 58-59, 64-71: reading stdout or stderr rejects while the process runs;
\* the catch block answers, then finally
StreamReadFails ==
  /\ exec.pc = "awaiting"
  /\ exec.proc = "running"
  /\ exec' = [exec EXCEPT !.pc = "returned", !.cause = "stream", !.timer = "cleared",
                          !.result = CatchResult(exec.args)]
  /\ UNCHANGED <<command, analysis, realtime>>

\* lines 60, 64-71: the aborted process rejects the await; catch, then finally
AbortRejects ==
  /\ exec.pc = "awaiting"
  /\ exec.proc = "killed"
  /\ exec' = [exec EXCEPT !.pc = "returned", !.cause = "abort",
                          !.result = CatchResult(exec.args)]
  /\ UNCHANGED <<command, analysis, realtime>>

ExecInit == Init /\ fs = <<>>

ExecNext ==
  \/ \E args \in {<<"generate">>, <<"push">>} : CallDrizzleKit(args)
  \/ \E spawned \in BOOLEAN : SpawnProcess(spawned)
  \/ \E ms \in Lapses : TimePasses(ms)
  \/ TimerFires
  \/ \E ending \in ProcessEndings : ProcessExits(ending)
  \/ StreamReadFails
  \/ AbortRejects

ExecSpec == ExecInit /\ [][ExecNext]_vars

\* C12, as claimed: runDrizzleKit never raises to its caller: a failure to spawn,
\* a non-zero exit, a stream read error and a timeout each end the call with a
\* returned result whose success is false.
C12_ExecutorNeverRaises ==
  /\ exec.pc # "raised"
  /\ exec.cause # "none" =>
       /\ exec.pc = "returned"
       /\ exec.result # Thrown
       /\ exec.result.success <=> (exec.cause = "exit" /\ exec.proc = "exited")
  /\ exec.pc = "returned" => exec.cause \in {"exit", "abort", "stream"}

\* C13, as claimed: past the 30 s deadline the process is killed and the call
\* returns success=false with the synthetic `timed out` stderr; that result is
\* returned only when the deadline has passed; and no timer is left pending
\* once the call has returned.
C13_TimeoutResultOnlyOnTimeout ==
  /\ (exec.pc = "returned" /\ exec.timer = "fired") =>
       (exec.proc = "killed" /\ exec.result = CatchResult(exec.args))
  /\ (exec.pc = "returned" /\ exec.result.stderr = TimeoutMessage(exec.args)) =>
       (exec.timer = "fired" /\ exec.elapsed >= DRIZZLE_TIMEOUT_MS)
  /\ exec.pc = "returned" => exec.timer # "armed"

\* C14: when the live database file does not exist at the backup step of a
\* destructive change set, the step ends with the null backup and a warning,
\* raising nothing and creating no file and no directory; the run goes on to
\* the phrase prompt and, when the phrase is accepted, to the push; and a push
\* that fails afterwards restores nothing: the live file stays as the push left it.
C14_NoDatabaseNoBackup ==
  /\ [][(pc = "backup" /\ ~Exists(fs, DEFAULT_DB_PATH)) =>
          /\ fs' = fs /\ backupsDir' = backupsDir
          /\ backup' = Null
          /\ pc' = "confirming" /\ outcome' = Running
          /\ ~(\E i \in 1..Len(trace') : trace'[i] = "raise")]_vars
  /\ [](Has("backup_null") =>
          /\ Destructive /\ dbAtStart = <<>> /\ backup = Null
          /\ Precedes("no_database_warning", "backup_null")
          /\ pc = "confirming" \/ Precedes("backup_null", "phrase_prompt")
          /\ typed = "delete data" =>
               (pc = "applying" \/ Has("push_spawn") \/ outcome.kind = "SpawnError")
          /\ ~Has("restore") /\ ~Has("rollback_msg")
          /\ (PushFailed /\ pc \in {"failed", "exited"}) => DbFile(fs) = dbAfterPush
          /\ (PushFailed /\ pc = "exited") => outcome.kind \in ApplyErrors)

C14_Witness ==
  /\ Has("backup_null")
  /\ PushFailed
  /\ pc = "exited"
  /\ dbAfterPush # <<>>
  /\ DbFile(fs) = dbAfterPush

\* C15: in a production run (migrate:production) the yes/no prompt is shown
\* before the backup step and before the phrase prompt; the answer no ends the
\* run cleanly, exit code 0, with no backup, no phrase prompt and no push, and
\* the database files untouched; and with a destructive change set the push is
\* spawned only after both the answer yes and the exact phrase.
C15_ProductionGateFirst ==
  /\ [][(options.production /\ pc = "classified" /\ pc' = "exited") =>
          (fs' = fs /\ backupsDir' = backupsDir /\ drizzle' = drizzle)]_vars
  /\ []((options.production /\ pc # "idle") =>
         /\ (pc \in {"backup", "confirming", "applying", "rollback", "failed"}
               \/ BackupStepDone \/ Has("phrase_prompt") \/ Has("push_spawn")
               \/ outcome.kind = "BackupError")
              => (Has("production_prompt") /\ ~Has("cancel_msg"))
         /\ Has("backup_saved") => Precedes("production_prompt", "backup_saved")
         /\ Has("backup_null") => Precedes("production_prompt", "backup_null")
         /\ Has("phrase_prompt") => Precedes("production_prompt", "phrase_prompt")
         /\ Has("cancel_msg") =>
              /\ pc = "exited" /\ outcome.kind = "cancelled" /\ exitCode = 0 /\ ~Has("raise")
              /\ ~BackupStepDone /\ backup = Null
              /\ ~Has("phrase_prompt") /\ typed = NotTyped
              /\ ~Has("push_spawn") /\ push = NoResult
              /\ DbFile(fs) = dbAtStart
         /\ (Destructive /\ Has("push_spawn")) =>
              /\ Precedes("production_prompt", "push_spawn")
              /\ Precedes("confirmed", "push_spawn")
              /\ typed = "delete data")

C15_Witness ==
  /\ options.production
  /\ Destructive
  /\ Has("cancel_msg")
  /\ pc = "exited"
  /\ dbAtStart # <<>>

\* C16: the exit code is 0 when the run ends by preview, by a declined
\* production prompt, by a declined destructive confirmation or by a successful
\* push, and 1 whenever an error was raised: a failed or timed-out generate, a
\* connection error, a conflict, a generic or timed-out push failure; the raised
\* error carries the text that caused it (stderr, or stdout when stderr is empty).
C16_ExitCodes ==
  /\ pc # "exited" => exitCode = 0
  /\ pc = "exited" =>
       /\ outcome.kind \in {"preview", "cancelled", "declined", "applied"} \cup ErrorKinds
       /\ outcome.kind \in {"preview", "cancelled", "declined", "applied"} =>
            (exitCode = 0 /\ ~Has("raise"))
       /\ outcome.kind = "preview" => Has("preview_msg")
       /\ outcome.kind = "cancelled" => Has("cancel_msg")
       /\ outcome.kind = "declined" => Has("mismatch_warning")
       /\ outcome.kind = "applied" => (push.success /\ Has("complete_msg"))
       /\ outcome.kind \in ErrorKinds =>
            (exitCode = 1 /\ RaisedOnce /\ trace[Len(trace)] = "raise")
       /\ outcome.kind \in {"GenerationConflict", "GenerationFailure"} =>
            /\ ~Has("diff") /\ Has("generate")
            /\ outcome.detail \in
                 StderrTexts \cup StdoutTexts \cup {TimeoutMessage(<<"generate">>)}
       /\ PushFailed =>
            /\ outcome.kind \in ApplyErrors
            /\ outcome.detail = IF push.stderr = <<>> THEN push.stdout ELSE push.stderr
       /\ (push # NoResult /\ push.stderr = TimeoutMessage(<<"push">>)) =>
            (exitCode = 1 /\ outcome.detail = push.stderr)

C16_Witness ==
  /\ pc = "exited"
  /\ exitCode = 1
  /\ push # NoResult
  /\ push.stderr = TimeoutMessage(<<"push">>)
  /\ outcome.kind = "ApplyFailure"

\* the transitions of one run: the state machine, with the ends a run may take
\* before the push (an error of generate or of the backup, preview, the two
\* declined prompts)
Edges ==
  { <<"idle", "generating">>, <<"exited", "generating">>,
    <<"generating", "diffing">>, <<"generating", "exited">>,
    <<"diffing", "classified">>,
    <<"classified", "backup">>, <<"classified", "applying">>, <<"classified", "exited">>,
    <<"backup", "confirming">>, <<"backup", "exited">>,
    <<"confirming", "applying">>, <<"confirming", "exited">>,
    <<"applying", "exited">>, <<"applying", "rollback">>,
    <<"rollback", "failed">>, <<"failed", "exited">> }

C17_OnlyEdges == [][pc' # pc => <<pc, pc'>> \in Edges]_vars

C17_DestructiveDetour ==
  [][/\ (pc = "classified" /\ pc' = "backup") => Destructive
     /\ (pc = "classified" /\ pc' = "applying") => ~Destructive
     /\ (pc = "confirming" /\ pc' = "applying") => typed' = "delete data"
     /\ (pc = "confirming" /\ pc' = "exited") => outcome'.kind = "declined"]_vars

C17_ApplyingEnds ==
  [][/\ (pc = "applying" /\ pc' = "exited") =>
          (outcome'.kind = "applied" /\ push'.success /\ exitCode' = 0)
     /\ (pc = "applying" /\ pc' = "rollback") => (push' # NoResult /\ ~push'.success)
     /\ (pc = "rollback") =>
          (pc' = "failed" /\ (backup # Null => fs'[DEFAULT_DB_PATH] = fs[backup.backupPath]))
     /\ (pc = "failed") =>
          (pc' = "exited" /\ outcome'.kind \in ApplyErrors /\ exitCode' = 1)]_vars

\* C17, as claimed: a run takes only the transitions Idle -> Generating ->
\* Diffing -> Classified -> (BackupTaken -> Confirming -> Confirmed | Declined,
\* when destructive) -> Applying -> Applied | RolledBack, and a run that is in
\* Applying ends either in Applied, its push having succeeded, or in RolledBack,
\* its push having failed and its backup, when it holds one, restored.
C17_StateMachine == C17_OnlyEdges /\ C17_DestructiveDetour /\ C17_ApplyingEnds

\* C18, as claimed: for every failed push, whatever the change set and whether
\* or not a backup was taken, the `Rollback complete. Restored database from ...`
\* message is printed before the error is raised.
C18_RollbackMsgAlways ==
  (PushFailed /\ pc = "exited") => Precedes("rollback_msg", "raise")

\* C18, amended: a push whose result reports failure is followed by the restore
\* message, printed after the restore and before the error is raised, exactly
\* when the run holds a backup, that is when the change set is destructive and
\* the live database file existed; with no backup (no destructive change, or no
\* database file) nothing is restored and no restore message is printed: the
\* error is raised alone.
C18_RollbackMsgIffBackup ==
  (PushFailed /\ pc = "exited") =>
    /\ Has("raise")
    /\ backup # Null <=> (Destructive /\ dbAtStart # <<>>)
    /\ backup # Null =>
         (Precedes("restore", "rollback_msg") /\ Precedes("rollback_msg", "raise"))
    /\ backup = Null => (~Has("rollback_msg") /\ ~Has("restore"))

C18_Witness ==
  /\ PushFailed
  /\ pc = "exited"
  /\ backup # Null
  /\ Precedes("rollback_msg", "raise")
  /\ outcome.kind = "ConflictError"

(***************************************************************************)
(* analyzeMigration (lines 106-172) on lists of statements: analysis       *)
(* holds the list given to one call and the records it returned.           *)
(***************************************************************************)
\* a table and a column, each written unquoted, "double-quoted", `backticked`
TableIdents == {Word("users"), DQuoted("users"), BQuoted("users"), DQuoted("order items")}

ColumnIdents == {Word("bio"), DQuoted("bio"), BQuoted("bio")}

\* CREATE TABLE t (id integer)
CreateTableStmt(t) ==
  <<UpWord("CREATE", "create"), UpWord("TABLE", "table"), t, Other("(id integer)")>>

\* DROP TABLE t
DropTableStmt(t) == <<UpWord("DROP", "drop"), UpWord("TABLE", "table"), t>>

\* ALTER TABLE t ADD COLUMN c text
AddColumnStmt(t, c) ==
  <<UpWord("ALTER", "alter"), UpWord("TABLE", "table"), t,
    UpWord("ADD", "add"), UpWord("COLUMN", "column"), c, Word("text")>>

\* ALTER TABLE t DROP COLUMN c
DropColumnStmt(t, c) ==
  <<UpWord("ALTER", "alter"), UpWord("TABLE", "table"), t,
    UpWord("DROP", "drop"), UpWord("COLUMN", "column"), c>>

\* text that holds none of the patterns of analyzeMigration
PlainTrailingTexts ==
  { <<>>,
    <<UpWord("CASCADE", "cascade")>>,
    \* -- dropped tables are archived
    <<Other("--"), Word("dropped"), Word("tables"), Word("are"), Word("archived")>> }

\* text that may follow a statement before its semicolon
TrailingTexts ==
  PlainTrailingTexts \cup
  { \* -- then create table users_v2
    <<Other("--"), Word("then"), Word("create"), Word("table"), Word("users_v2")>>,
    \* DEFAULT 'drop table x now'
    <<UpWord("DEFAULT", "default"), GluedWord("'drop", "drop", "pre"), Word("table"),
      Word("x"), Other("now'")>> }

\* what may follow ALTER TABLE t ALTER COLUMN c
DropNotNull == <<UpWord("DROP", "drop"), UpWord("NOT", "not"), UpWord("NULL", "null")>>

SetNotNull == <<UpWord("SET", "set"), UpWord("NOT", "not"), UpWord("NULL", "null")>>

SetDataType ==
  <<UpWord("SET", "set"), UpWord("DATA", "data"), UpWord("TYPE", "type"), Word("integer")>>

ColumnActions ==
  { DropNotNull, SetNotNull, SetDataType,
    <<Word("set"), Word("not"), Word("null")>>,
    <<UpWord("TYPE", "type"), Word("integer")>>,
    <<UpWord("SET", "set"), UpWord("DEFAULT", "default"), Other("'x'")>>,
    <<UpWord("DROP", "drop"), UpWord("DEFAULT", "default")>> }

\* ALTER TABLE t ALTER COLUMN c action
AlterColumnStmt(t, c, action) ==
  <<UpWord("ALTER", "alter"), UpWord("TABLE", "table"), t,
    UpWord("ALTER", "alter"), UpWord("COLUMN", "column"), c>> \o action

\* ALTER TABLE t RENAME COLUMN c TO nickname
RenameColumnStmt(t, c) ==
  <<UpWord("ALTER", "alter"), UpWord("TABLE", "table"), t,
    UpWord("RENAME", "rename"), UpWord("COLUMN", "column"), c,
    UpWord("TO", "to"), Word("nickname")>>

ModifyStatements ==
  {AlterColumnStmt(t, c, a) : t \in TableIdents, c \in ColumnIdents, a \in ColumnActions}
    \cup {RenameColumnStmt(t, c) : t \in TableIdents, c \in ColumnIdents}

ShapedStatements ==
  {CreateTableStmt(t) \o tr : t \in TableIdents, tr \in TrailingTexts}
    \cup {DropTableStmt(t) \o tr : t \in TableIdents, tr \in TrailingTexts}
    \cup {AddColumnStmt(t, c) \o tr : t \in TableIdents, c \in ColumnIdents,
                                      tr \in TrailingTexts}
    \cup {DropColumnStmt(t, c) \o tr : t \in TableIdents, c \in ColumnIdents,
                                       tr \in TrailingTexts}

\* the statements the lists of several statements are made of
SampleStatements ==
  { <<>>,
    CreateTableStmt(BQuoted("users")),
    DropTableStmt(Word("users")),
    AddColumnStmt(Word("users"), BQuoted("bio")),
    DropColumnStmt(DQuoted("users"), DQuoted("bio")),
    \* drop table if exists sessions
    <<Word("drop"), Word("table"), Word("if"), Word("exists"), Word("sessions")>>,
    \* ALTER TABLE users ALTER COLUMN bio SET NOT NULL
    <<UpWord("ALTER", "alter"), UpWord("TABLE", "table"), Word("users"),
      UpWord("ALTER", "alter"), UpWord("COLUMN", "column"), Word("bio"),
      UpWord("SET", "set"), UpWord("NOT", "not"), UpWord("NULL", "null")>>,
    \* ALTER TABLE users ALTER COLUMN bio SET DEFAULT 'x'
    <<UpWord("ALTER", "alter"), UpWord("TABLE", "table"), Word("users"),
      UpWord("ALTER", "alter"), UpWord("COLUMN", "column"), Word("bio"),
      UpWord("SET", "set"), UpWord("DEFAULT", "default"), Other("'x'")>>,
    \* CREATE INDEX idx ON users (bio)
    <<UpWord("CREATE", "create"), UpWord("INDEX", "index"), Word("idx"),
      UpWord("ON", "on"), Word("users"), Other("(bio)")>> }

\* the lists one call of analyzeMigration may be given
StatementLists ==
  {<<s>> : s \in ShapedStatements \cup ModifyStatements}
    \cup UNION {[1..n -> SampleStatements] : n \in 0..MaxStatements}

\* lines 106-172: one call
AnalyzeMigration(sqlStatements) ==
  /\ ~analysis.called
  /\ analysis' = [analysis EXCEPT !.called = TRUE, !.sqlStatements = sqlStatements,
                                  !.changes = analyzeMigration(sqlStatements)]
  /\ UNCHANGED <<command, exec, realtime>>

AnalyzeInit == Init /\ fs = <<>>

\* line 304: the records are handed to displayDiff
DisplayDiff ==
  /\ analysis.called
  /\ ~analysis.displayed
  /\ analysis' = [analysis EXCEPT !.displayed = TRUE,
                                  !.output = displayDiff(analysis.changes)]
  /\ UNCHANGED <<command, exec, realtime>>

AnalyzeNext ==
  \/ \E sqlStatements \in StatementLists : AnalyzeMigration(sqlStatements)
  \/ DisplayDiff

AnalyzeSpec == AnalyzeInit /\ [][AnalyzeNext]_vars

\* C19: in every list of records analyzeMigration returns, a drop_table or
\* drop_column record is destructive and a create_table or add_column record is
\* not, whatever the statements were.
C19_KindFixesDestructive ==
  \A i \in 1..Len(analysis.changes) :
    /\ analysis.changes[i].type \in {"drop_table", "drop_column"} =>
         analysis.changes[i].isDestructive
    /\ analysis.changes[i].type \in {"create_table", "add_column"} =>
         ~analysis.changes[i].isDestructive

C19_Witness ==
  /\ analysis.called
  /\ Len(analysis.sqlStatements) = 2
  /\ Len(analysis.changes) = 2
  /\ analysis.changes[1].type = "drop_column"
  /\ analysis.changes[2].type = "add_column"

\* the one record a statement of a given shape is claimed to yield
Expected(type, t, c, isDestructive, sql) ==
  <<[type |-> type, table |-> t.v, column |-> IF c = <<>> THEN NoColumn ELSE c[1].v,
     isDestructive |-> isDestructive, detail |-> sql]>>

Classified(sql, type, t, c, isDestructive) ==
  (analysis.called /\ analysis.sqlStatements = <<sql>>) =>
    analysis.changes = Expected(type, t, c, isDestructive, sql)

FourShapes(trailing) ==
  \A t \in TableIdents, c \in ColumnIdents, tr \in trailing :
    /\ Classified(CreateTableStmt(t) \o tr, "create_table", t, <<>>, FALSE)
    /\ Classified(DropTableStmt(t) \o tr, "drop_table", t, <<>>, TRUE)
    /\ Classified(AddColumnStmt(t, c) \o tr, "add_column", t, <<c>>, FALSE)
    /\ Classified(DropColumnStmt(t, c) \o tr, "drop_column", t, <<c>>, TRUE)

\* C20, as claimed: for every table t and column c, unquoted, double-quoted or
\* backtick-quoted, and for any text that follows, `CREATE TABLE t (...)`,
\* `DROP TABLE t`, `ALTER TABLE t ADD COLUMN c ...` and `ALTER TABLE t DROP
\* COLUMN c` each yield exactly one record, of type create_table, drop_table,
\* add_column and drop_column, with the table (and column) named without its
\* quotes and destructive false, true, false and true.
C20_FourShapesAnyTrailingText == FourShapes(TrailingTexts)

\* the same four shapes followed only by text that holds no pattern of
\* analyzeMigration: these are classified as claimed
C20_FourShapesPlainTrailingText == FourShapes(PlainTrailingTexts)

\* text holds the words ph in a row, in any letter case, as part of the text
ContainsText(text, ph) ==
  \E i \in 1..Len(text) :
    /\ i + Len(ph) - 1 <= Len(text)
    /\ \A j \in 1..Len(ph) :
         /\ text[i + j - 1].t = "w"
         /\ text[i + j - 1].core = ph[j]
         /\ \/ text[i + j - 1].glue = "none"
            \/ text[i + j - 1].glue = "pre" /\ j = 1
            \/ text[i + j - 1].glue = "post" /\ j = Len(ph)

SingleStatement(sql) == analysis.called /\ analysis.sqlStatements = <<sql>>

\* C21: a modify_column record is destructive iff the text of its statement
\* holds DROP NOT NULL, SET NOT NULL, SET DATA TYPE or RENAME COLUMN, in any
\* letter case; and ALTER TABLE t ALTER COLUMN c ... and ALTER TABLE t RENAME
\* COLUMN c ... yield one modify_column record for table t whose column is c
\* without its quotes.
C21_ModifyDestructiveIffPhrase ==
  /\ \A i \in 1..Len(analysis.changes) :
       analysis.changes[i].type = "modify_column" =>
         (analysis.changes[i].isDestructive <=>
            \/ ContainsText(analysis.changes[i].detail, <<"drop", "not", "null">>)
            \/ ContainsText(analysis.changes[i].detail, <<"set", "not", "null">>)
            \/ ContainsText(analysis.changes[i].detail, <<"set", "data", "type">>)
            \/ ContainsText(analysis.changes[i].detail, <<"rename", "column">>))
  /\ \A t \in TableIdents, c \in ColumnIdents :
       /\ \A a \in ColumnActions :
            SingleStatement(AlterColumnStmt(t, c, a)) =>
              /\ Len(analysis.changes) = 1
              /\ analysis.changes[1].type = "modify_column"
              /\ analysis.changes[1].table = t.v
              /\ analysis.changes[1].column = c.v
       /\ SingleStatement(RenameColumnStmt(t, c)) =>
            /\ Len(analysis.changes) = 1
            /\ analysis.changes[1].type = "modify_column"
            /\ analysis.changes[1].table = t.v
            /\ analysis.changes[1].column = c.v
            /\ analysis.changes[1].isDestructive

C21_Witness ==
  /\ SingleStatement(RenameColumnStmt(DQuoted("order items"), BQuoted("bio")))
  /\ analysis.changes[1].column = "bio"
  /\ analysis.changes[1].isDestructive

\* C22, as claimed: ALTER COLUMN c DROP NOT NULL, a loosening, is classified
\* not destructive, while SET NOT NULL, SET DATA TYPE and RENAME COLUMN are
\* classified destructive.
C22_DropNotNullIsSafe ==
  \A t \in TableIdents, c \in ColumnIdents :
    /\ SingleStatement(AlterColumnStmt(t, c, DropNotNull)) =>
         ~analysis.changes[1].isDestructive
    /\ SingleStatement(AlterColumnStmt(t, c, SetNotNull)) =>
         analysis.changes[1].isDestructive
    /\ SingleStatement(AlterColumnStmt(t, c, SetDataType)) =>
         analysis.changes[1].isDestructive
    /\ SingleStatement(RenameColumnStmt(t, c)) => analysis.changes[1].isDestructive

\* C22, amended: ALTER COLUMN c DROP NOT NULL is classified destructive as well,
\* like SET NOT NULL, SET DATA TYPE and RENAME COLUMN; a modify_column statement
\* with none of these four texts (SET DEFAULT, DROP DEFAULT, a type change
\* written TYPE without SET DATA) is classified not destructive.
C22_DropNotNullIsDestructive ==
  \A t \in TableIdents, c \in ColumnIdents :
    /\ \A a \in {DropNotNull, SetNotNull, SetDataType} :
         SingleStatement(AlterColumnStmt(t, c, a)) =>
           (analysis.changes[1].type = "modify_column"
              /\ analysis.changes[1].isDestructive)
    /\ SingleStatement(RenameColumnStmt(t, c)) =>
         (analysis.changes[1].type = "modify_column" /\ analysis.changes[1].isDestructive)
    /\ \A a \in ColumnActions \ {DropNotNull, SetNotNull, SetDataType,
                                <<Word("set"), Word("not"), Word("null")>>} :
         SingleStatement(AlterColumnStmt(t, c, a)) =>
           (analysis.changes[1].type = "modify_column"
              /\ ~analysis.changes[1].isDestructive)

C22_Witness ==
  /\ SingleStatement(AlterColumnStmt(Word("users"), DQuoted("bio"), DropNotNull))
  /\ analysis.changes[1].type = "modify_column"
  /\ analysis.changes[1].isDestructive

(***************************************************************************)
(* collectChangesFromGenerate (lines 272-297) when drizzle-kit generate may *)
(* do anything to drizzle/: write a file, rewrite one, remove one, create   *)
(* or remove the directory.                                                 *)
(***************************************************************************)
\* ALTER TABLE users ADD COLUMN bio text; DROP TABLE sessions;
TwoStatements ==
  <<UpWord("ALTER", "alter"), UpWord("TABLE", "table"), Word("users"),
    UpWord("ADD", "add"), UpWord("COLUMN", "column"), Word("bio"), Word("text"), Semi,
    UpWord("DROP", "drop"), UpWord("TABLE", "table"), Word("sessions"), Semi>>

FileTexts ==
  { TwoStatements,
    \* the same file with CREATE TABLE posts (id integer); appended
    TwoStatements \o <<UpWord("CREATE", "create"), UpWord("TABLE", "table"), Word("posts"),
                       Other("(id integer)"), Semi>>,
    \* CREATE INDEX idx ON users (bio);
    <<UpWord("CREATE", "create"), UpWord("INDEX", "index"), Word("idx"),
      UpWord("ON", "on"), Word("users"), Other("(bio)"), Semi>> }

SqlPaths == {SqlFile(1), SqlFile(2)}

\* the states of drizzle/: missing, or holding any of the two .sql files with
\* any of the texts, and the journal or not
Directories ==
  {<<>>} \cup
  UNION { { [q \in {RootDir} \cup present \cup meta |->
              IF q \in present THEN texts[q]
              ELSE IF q = RootDir THEN <<>> ELSE <<Other("{}")>>]
            : texts \in [present -> FileTexts], meta \in {{}, {MetaFile(1)}} }
          : present \in SUBSET SqlPaths }

\* lines 273-282: the first snapshot, then a generate run that succeeds and
\* leaves drizzle/ in any state
GenerateRewrites(dir) ==
  /\ pc = "generating"
  /\ before' = listSqlFiles(drizzle)
  /\ drizzle' = dir
  /\ pc' = "diffing"
  /\ trace' = trace \o <<"generate">>
  /\ UNCHANGED <<fs, backupsDir, now, runs, options, changes, backup, typed, push, outcome,
                 exitCode, dbAtStart, dbAfterPush, units>>

\* lines 284-296 and 304: the second snapshot, the changed statements, their
\* classification, and displayDiff
CollectChanges ==
  /\ pc = "diffing"
  /\ changes' = analyzeMigration(changedSql(before, listSqlFiles(drizzle)))
  /\ analysis' = [called |-> TRUE,
                  sqlStatements |-> changedSql(before, listSqlFiles(drizzle)),
                  changes |-> changes',
                  displayed |-> TRUE,
                  output |-> displayDiff(changes')]
  /\ pc' = "classified"
  /\ trace' = trace \o <<"diff">>
  /\ UNCHANGED <<durable, now, runs, options, before, backup, typed, push, outcome,
                 exitCode, dbAtStart, dbAfterPush, exec, realtime>>

DiffInit ==
  /\ fs = <<>>
  /\ backupsDir = FALSE
  /\ drizzle \in Directories
  /\ now = 0
  /\ runs = 1
  /\ pc = "generating"
  /\ options = [preview |-> FALSE, production |-> FALSE]
  /\ before = <<>>
  /\ changes = <<>>
  /\ backup = Null
  /\ typed = NotTyped
  /\ push = NoResult
  /\ outcome = Running
  /\ exitCode = 0
  /\ trace = <<"start">>
  /\ dbAtStart = <<>>
  /\ dbAfterPush = <<>>
  /\ exec = NotCalled
  /\ analysis = NotAnalyzed
  /\ realtime = NewServer

DiffNext ==
  \/ \E dir \in Directories : GenerateRewrites(dir)
  \/ CollectChanges

DiffSpec == DiffInit /\ [][DiffNext]_vars

\* the .sql file at path q of the second snapshot is new or differs
ChangedFile(q) ==
  /\ RootDir \in DOMAIN drizzle
  /\ q \in DOMAIN drizzle
  /\ q \notin DOMAIN before \/ before[q] # drizzle[q]

StatementsOf(q) == IF ChangedFile(q) THEN splitStatements(drizzle[q]) ELSE <<>>

\* C23: the snapshot of a missing drizzle/ is the empty map, taken without an
\* error, and a snapshot holds the .sql files only; the statements classified
\* are all the statements of exactly the files of the second snapshot that
\* were not in the first or whose text differs from it, the statements such a
\* file already held included; a file with the same text, and a file that is
\* only in the first snapshot, add nothing.
C23_SnapshotDiff ==
  /\ [][pc = "generating" =>
          /\ pc' = "diffing" /\ outcome' = Running
          /\ RootDir \notin DOMAIN drizzle => before' = <<>>
          /\ RootDir \in DOMAIN drizzle =>
               before' = [q \in DOMAIN drizzle \cap SqlPaths |-> drizzle[q]]]_vars
  /\ [](pc = "classified" =>
          /\ analysis.sqlStatements = StatementsOf(SqlFile(1)) \o StatementsOf(SqlFile(2))
          /\ changes = analyzeMigration(analysis.sqlStatements)
          /\ \A q \in SqlPaths :
               (q \in DOMAIN before /\ q \in DOMAIN drizzle /\ before[q] = drizzle[q]) =>
                 StatementsOf(q) = <<>>
          /\ \A q \in DOMAIN before \ DOMAIN drizzle : StatementsOf(q) = <<>>)

C23_Witness ==
  /\ pc = "classified"
  /\ SqlPaths \subseteq DOMAIN before
  /\ DOMAIN drizzle \cap SqlPaths = {SqlFile(2)}
  /\ before[SqlFile(2)] = TwoStatements
  /\ Len(analysis.sqlStatements) = 3
  /\ Len(changes) = 3
  /\ changes[2].type = "drop_table"

\* C24: when generate succeeds and the snapshot taken after it equals the one
\* taken before it, no statement is classified, the change list is empty, and
\* displayDiff prints, under its heading, `No schema changes detected.` and no
\* group.
C24_UnchangedSnapshotNoChanges ==
  (pc = "classified"
     /\ before = [q \in {f \in DOMAIN drizzle : RootDir \in DOMAIN drizzle /\ f.ext = "sql"}
                    |-> drizzle[q]]) =>
    /\ analysis.sqlStatements = <<>>
    /\ changes = <<>>
    /\ analysis.displayed
    /\ analysis.output = <<Title("header"), Title("no_changes")>>

C24_Witness ==
  /\ pc = "classified"
  /\ DOMAIN before = SqlPaths
  /\ \A q \in SqlPaths : q \in DOMAIN drizzle /\ drizzle[q] = before[q]
  /\ MetaFile(1) \in DOMAIN drizzle
  /\ analysis.output = <<Title("header"), Title("no_changes")>>

EntryLines == {"new_table", "new_column", "modified", "destructive"}

LinesOf(kinds) == SelectSeq(analysis.output, LAMBDA l : l.line \in kinds)

PositionsOf(kind) == {i \in 1..Len(analysis.output) : analysis.output[i].line = kind}

\* the entries of one group are the records of that group, in their order
SameEntries(lines, records) ==
  /\ Len(lines) = Len(records)
  /\ \A i \in 1..Len(lines) :
       /\ lines[i].table = records[i].table
       /\ lines[i].column = (IF records[i].column = NoColumn THEN "" ELSE records[i].column)

\* the groups come in the order new tables, new columns, modified columns,
\* destructive changes, each under its title and closed by an empty line
GroupsInOrder ==
  /\ \A i \in PositionsOf("new_table"), j \in PositionsOf("new_column") : i < j
  /\ \A i \in PositionsOf("new_table") \cup PositionsOf("new_column"),
        j \in PositionsOf("modified") : i < j
  /\ \A i \in PositionsOf("new_table") \cup PositionsOf("new_column")
                \cup PositionsOf("modified"),
        j \in PositionsOf("destructive") : i < j
  /\ \A g \in {<<"new_tables_title", "new_table">>, <<"new_columns_title", "new_column">>,
               <<"modified_title", "modified">>, <<"destructive_title", "destructive">>} :
       /\ Cardinality(PositionsOf(g[1])) = (IF PositionsOf(g[2]) = {} THEN 0 ELSE 1)
       /\ PositionsOf(g[2]) # {} => PositionsOf(g[1]) = {Min(PositionsOf(g[2])) - 1}

\* every destructive entry is followed by the data-loss warning line
WarningsFollow ==
  /\ \A i \in PositionsOf("destructive") :
       i < Len(analysis.output) /\ analysis.output[i + 1].line = "delete_data_warning"
  /\ \A i \in PositionsOf("delete_data_warning") :
       i > 1 /\ analysis.output[i - 1].line = "destructive"

\* C25, as claimed: a non-empty list is printed as four groups in the order new
\* tables, new columns, modified columns, destructive changes, every change
\* being listed in exactly one group and every destructive entry followed by a
\* data-loss warning; an empty list is printed as the no-schema-changes line.
C25_GroupsPartitionChanges ==
  analysis.displayed =>
    IF analysis.changes = <<>>
      THEN LinesOf({"no_changes"} \cup EntryLines) = <<Title("no_changes")>>
      ELSE /\ GroupsInOrder
           /\ WarningsFollow
           /\ Len(LinesOf(EntryLines)) = Len(analysis.changes)

\* C25, amended: the groups are printed in that order and every destructive
\* entry is followed by the warning, but the groups overlap: new tables lists
\* the create_table records, new columns the add_column records, modified
\* columns every modify_column record, and destructive changes every
\* destructive record, so a destructive modify_column is listed twice and a
\* drop_table or drop_column only under destructive changes.  An empty list is
\* printed as the heading and the no-schema-changes line.
C25_GroupsByTypeAndFlag ==
  analysis.displayed =>
    /\ Len(analysis.output) >= 1 /\ analysis.output[1] = Title("header")
    /\ IF analysis.changes = <<>>
         THEN analysis.output = <<Title("header"), Title("no_changes")>>
         ELSE /\ GroupsInOrder
              /\ WarningsFollow
              /\ PositionsOf("no_changes") = {}
              /\ SameEntries(LinesOf({"new_table"}),
                             SelectSeq(analysis.changes, LAMBDA c : c.type = "create_table"))
              /\ SameEntries(LinesOf({"new_column"}),
                             SelectSeq(analysis.changes, LAMBDA c : c.type = "add_column"))
              /\ SameEntries(LinesOf({"modified"}),
                             SelectSeq(analysis.changes, LAMBDA c : c.type = "modify_column"))
              /\ SameEntries(LinesOf({"destructive"}),
                             SelectSeq(analysis.changes, LAMBDA c : c.isDestructive))
              /\ \A i \in 1..Len(LinesOf({"destructive"})) :
                   LinesOf({"destructive"})[i].type =
                     SelectSeq(analysis.changes, LAMBDA c : c.isDestructive)[i].type
              /\ Len(LinesOf(EntryLines)) =
                   Len(analysis.changes)
                     + Len(SelectSeq(analysis.changes,
                                     LAMBDA c : c.type = "modify_column" /\ c.isDestructive))

C25_Witness ==
  /\ analysis.displayed
  /\ Len(analysis.changes) = 2
  /\ analysis.changes[1].type = "modify_column" /\ analysis.changes[1].isDestructive
  /\ analysis.changes[2].type = "create_table"
  /\ Len(LinesOf(EntryLines)) = 3

GenerateErrors == {"GenerationConflict", "GenerationFailure"}

\* C26: a generate run that fails ends the invocation with a raised error, exit
\* code 1, before any diff, prompt, backup or push, the database files and
\* backups/ untouched; the error is the conflict error when stderr holds
\* conflict or merge, and the generic generation failure otherwise, which is
\* also what a generate run that timed out is raised as.
C26_GenerateFailureIsFatal ==
  /\ [][(pc = "generating" /\ pc' = "exited") =>
          /\ fs' = fs /\ backupsDir' = backupsDir /\ drizzle' = drizzle
          /\ outcome'.kind \in GenerateErrors \cup {"SpawnError"}
          /\ exitCode' = 1]_vars
  /\ [](outcome.kind \in GenerateErrors =>
          /\ pc = "exited" /\ exitCode = 1
          /\ trace = <<"start", "generate", "raise">>
          /\ changes = <<>> /\ backup = Null /\ typed = NotTyped /\ push = NoResult
          /\ outcome.kind = "GenerationConflict" <=>
               (\E i \in 1..Len(outcome.detail) :
                  outcome.detail[i].t = "w" /\ outcome.detail[i].core \in {"conflict", "merge"})
          /\ outcome.detail = TimeoutMessage(<<"generate">>) =>
               outcome.kind = "GenerationFailure")

C26_Witness ==
  /\ outcome.kind = "GenerationFailure"
  /\ outcome.detail = TimeoutMessage(<<"generate">>)
  /\ runs = 2
  /\ BackupFiles(fs) # {}

\* the first of the five patterns, in the order of the source, that a statement
\* matches; "none" when it matches none
FirstPattern(sql) ==
  IF MatchHead(sql, <<"create", "table">>, <<"if", "not", "exists">>) # <<0, 0>>
    THEN "create_table"
  ELSE IF MatchHead(sql, <<"drop", "table">>, <<"if", "exists">>) # <<0, 0>>
    THEN "drop_table"
  ELSE IF MatchAlter(sql, <<"add", "column">>, <<"if", "not", "exists">>) # <<0, 0>>
    THEN "add_column"
  ELSE IF MatchAlter(sql, <<"drop", "column">>, <<"if", "exists">>) # <<0, 0>>
    THEN "drop_column"
  ELSE IF \/ MatchAlter(sql, <<"alter", "column">>, <<>>) # <<0, 0>>
          \/ MatchAlter(sql, <<"rename", "column">>, <<>>) # <<0, 0>>
    THEN "modify_column"
  ELSE "none"

\* C27: every non-empty statement is tested against the patterns in the order
\* CREATE TABLE, DROP TABLE, ADD COLUMN, DROP COLUMN, ALTER or RENAME COLUMN and
\* the first that matches decides its record; a statement yields at most one
\* record, a statement that matches none yields no record and no error, and the
\* records come in the order of their statements.
C27_FirstPatternWins ==
  analysis.called =>
    LET kept == SelectSeq(analysis.sqlStatements,
                          LAMBDA sql : sql # <<>> /\ FirstPattern(sql) # "none")
    IN /\ Len(analysis.changes) = Len(kept)
       /\ Len(analysis.changes) <= Len(analysis.sqlStatements)
       /\ \A i \in 1..Len(kept) :
            /\ analysis.changes[i].type = FirstPattern(kept[i])
            /\ analysis.changes[i].detail = kept[i]

C27_Witness ==
  /\ analysis.called
  /\ Len(analysis.sqlStatements) = 1
  /\ MatchHead(analysis.sqlStatements[1], <<"drop", "table">>, <<"if", "exists">>) # <<0, 0>>
  /\ MatchAlter(analysis.sqlStatements[1], <<"add", "column">>, <<"if", "not", "exists">>)
       # <<0, 0>>
  /\ Len(analysis.changes) = 1
  /\ analysis.changes[1].type = "drop_table"

\* C28: when the backup cannot be written (mkdir, serialize or the write
\* throws), the error is raised out of the run: exit code 1, no phrase prompt
\* and no push, and the live database file as it was when the run started.
C28_BackupFailureIsFatal ==
  /\ [][(pc = "backup" /\ DEFAULT_DB_PATH \in DOMAIN fs
           /\ BackupFiles(fs') = BackupFiles(fs)) =>
          /\ pc' = "exited"
          /\ outcome'.kind = "BackupError" /\ exitCode' = 1
          /\ fs' = fs /\ backup' = Null
          /\ typed' = NotTyped /\ push' = NoResult]_vars
  /\ [](outcome.kind = "BackupError" =>
          /\ pc = "exited" /\ exitCode = 1 /\ Destructive
          /\ trace[Len(trace)] = "raise" /\ Count("raise") = 1
          /\ ~Has("destructive_list") /\ ~Has("phrase_prompt") /\ typed = NotTyped
          /\ ~Has("push_spawn") /\ push = NoResult
          /\ ~Has("restore")
          /\ dbAtStart # <<>> /\ DbFile(fs) = dbAtStart)

C28_Witness ==
  /\ outcome.kind = "BackupError"
  /\ options.production
  /\ backupsDir
  /\ BackupFiles(fs) = {}
  /\ fs[DEFAULT_DB_PATH] = <<2, 1>>

\* C29: the gate reads only the classified records.  A run that is not a
\* preview and whose change list is empty (nothing changed, or no changed
\* statement has one of the five shapes) goes from the gate straight to the
\* push: no backup is taken and the phrase is never asked for; the backup and
\* the phrase are reached only with a destructive record in the list.
C29_EmptyChangeListStillApplies ==
  /\ [][(pc = "classified" /\ changes = <<>> /\ pc' # "exited") =>
          (~options.preview /\ pc' = "applying" /\ backup' = Null /\ fs' = fs)]_vars
  /\ [][(pc = "classified" /\ pc' \in {"backup", "confirming"}) =>
          (pc' = "backup" /\ \E i \in 1..Len(changes) : changes[i].isDestructive)]_vars
  /\ []((changes = <<>> /\ pc \in {"applying", "rollback", "exited"}) =>
          /\ backup = Null /\ typed = NotTyped
          /\ ~Has("backup_saved") /\ ~Has("backup_null") /\ ~Has("no_database_warning")
          /\ ~Has("destructive_list") /\ ~Has("phrase_prompt")
          /\ (Has("push_spawn") => Precedes("diff", "push_spawn")))
  /\ []((Has("diff") /\ changes = <<>> /\ ~options.preview /\ pc = "exited") =>
          \/ Has("push_spawn")
          \/ outcome.kind \in {"cancelled", "SpawnError"})

\* a changed file whose only statement is CREATE INDEX: no record, and the push ran
C29_Witness ==
  /\ outcome.kind = "applied"
  /\ changes = <<>>
  /\ changedSql(before, listSqlFiles(drizzle)) # <<>>
  /\ Has("push_spawn")
  /\ backup = Null /\ typed = NotTyped

\* nothing changed at all, and the push ran
C29_WitnessNothingChanged ==
  /\ outcome.kind = "applied"
  /\ changes = <<>>
  /\ changedSql(before, listSqlFiles(drizzle)) = <<>>
  /\ Has("push_spawn")

(***************************************************************************)
(* The RealtimeServer driven by its four public methods, any socket, any   *)
(* message, and any outcome of safeSend.                                   *)
(***************************************************************************)
HandleConnection(ws) ==
  /\ realtime' = handleConnection(realtime, ws)
  /\ UNCHANGED <<command, exec, analysis>>

HandleMessage(ws, rawMessage) ==
  /\ realtime' = handleMessage(realtime, ws, rawMessage)
  /\ UNCHANGED <<command, exec, analysis>>

HandleClose(ws) ==
  /\ realtime' = handleClose(realtime, ws)
  /\ UNCHANGED <<command, exec, analysis>>

Broadcast(table, data, failing) ==
  /\ realtime' = broadcast(realtime, table, data, failing)
  /\ UNCHANGED <<command, exec, analysis>>

RealtimeInit == Init /\ fs = <<>>

RealtimeNext ==
  \/ \E ws \in Sockets : HandleConnection(ws)
  \/ \E ws \in Sockets, rawMessage \in Messages : HandleMessage(ws, rawMessage)
  \/ \E ws \in Sockets : HandleClose(ws)
  \/ \E table \in Tables, data \in Payloads, failing \in SUBSET Sockets :
       Broadcast(table, data, failing)

RealtimeSpec == RealtimeInit /\ [][RealtimeNext]_vars

\* C30: the two indexes agree after any sequence of calls: a socket is in
\* tableSubscribers[table] exactly when it is a registered client whose
\* subscriptions hold that table, and no table maps to an empty set.
C30_IndexesAgree ==
  /\ \A table \in Tables, ws \in Sockets :
       (table \in DOMAIN realtime.tableSubscribers
          /\ ws \in Members(realtime.tableSubscribers[table]))
       <=> (ws \in DOMAIN realtime.clients
              /\ table \in DOMAIN realtime.clients[ws].subscriptions)
  /\ \A table \in DOMAIN realtime.tableSubscribers :
       realtime.tableSubscribers[table] # <<>>

\* every call keeps the two indexes in agreement, except handleConnection
\* called with a socket that is already a client holding subscriptions
C30_OnlyReregistrationBreaks ==
  [][(C30_IndexesAgree /\ ~C30_IndexesAgree') =>
       \E ws \in DOMAIN realtime.clients :
         /\ realtime.clients[ws].subscriptions # EmptyMap
         /\ realtime' = handleConnection(realtime, ws)]_vars

====
